---- MODULE Spec2Model ----
(***************************************************************************)
(* Model of the monitoring and alarm-evaluation engine of the Crypto      *)
(* Price Alarm application (src/app.js, class CryptoPriceAlarm).          *)
(*                                                                         *)
(* Time is Date.now() in milliseconds.  Prices are integers on a grid of  *)
(* 1e-8 (one unit = 0.00000001 of the quote currency), so that the        *)
(* tolerance eps = max(1e-8, |target| * 1e-6) of checkTargetAlarm is      *)
(* max(1, |target| / 10^6) units.  Percentages are compared after         *)
(* multiplying both sides by the (positive) reference price.              *)
(***************************************************************************)
EXTENDS Integers, Sequences, FiniteSets, TLC

\* ------------------------------------------------------------------------
\* Bounds of the model
\* ------------------------------------------------------------------------
MaxSteps == 2
MaxHist == 3
MaxAlarms == 1
MaxTicks == 2

\* ------------------------------------------------------------------------
\* Program constants
\* ------------------------------------------------------------------------
MinApiDelay == 1200
RateLimitBackoffMs == 60000
DayMs == 86400000
TickMs == 15000
ResetCooldownMs == 60000
MinuteMs == 60000
EpsRatio == 1000000
EpsMin == 1

\* The clock advances in steps of four tick periods, starting one day after
\* the epoch so that every timestamp is positive (truthy in JavaScript).
StepMs == 4 * TickMs
StartTime == DayMs
MaxTime == StartTime + MaxSteps * StepMs

NoTime == 0

Tickers == {"BTCUSDT", "ETHUSDT"}
TickerOrder == <<"BTCUSDT", "ETHUSDT">>
\* Alarm ids: the alarms created during the session, and one more for
\* snapshots that hold an alarm per tracked pair.
AlarmIds == 1 .. (MaxAlarms + 1)
TickIds == 1 .. MaxTicks

\* Inputs of the life-cycle specifications: upstream prices, and the alarm
\* configurations the user creates.
Prices == {90, 110}
Targets == {105}
TargetDirections == {"up"}
Percentages == {10}
ExtremeTypes == {"max"}
MoveDirections == {"any"}
TimeUnits == {"minutes", "since_start"}
TimeValues == {1}

\* Inputs of the evaluation-only specification (SpecEval).
Directions == {"up", "down", "any"}
EvalExtremeTypes == {"max", "min"}
EvalPrices == {90, 99, 100, 101, 110, 2999996, 2999997}
EvalTargets == {100, 3000000}
EvalPercentages == {0, 5, 10}

VARIABLES
    now,            \* Date.now()
    assets,         \* this.assets: ticker -> asset object
    priceHistory,   \* this.priceHistory: ticker -> sequence of {price, timestamp}
    alarms,         \* this.alarms: alarm id -> alarm object
    nextAlarm,      \* number of alarm ids generated so far (ids are never reused)
    resetIntervals, \* this.resetIntervals: set of alarm ids with a registered interval id
    timers,         \* live cooldown intervals: alarm id -> Timer("none" | "cooldown" | "rehydrated")
    modalStack,     \* this.modalStack: sequence of [id, type, direction]
    lastApiCall,    \* this.lastApiCall
    ticks,          \* running bodies of updateAllPrices: tick id -> [kind, fetch]
    monitoring,     \* this.updateInterval is set (startMonitoring has run)
    lastTickAt,     \* time the 15 s interval last fired (or was created)
    storage,        \* localStorage: the snapshot written by the last saveToStorage
    checked,        \* the last step ran checkAlarms
    events,         \* trigger events emitted (triggerAlarm calls) by the last step
    evaluated,      \* alarm ids passed to the rule evaluators by the last step
    sound,          \* the alarm sound: alarmSoundPlaying, oscillators, the test modal
    fresh           \* tickers whose last history point no checkAlarms pass has read

vars == <<now, assets, priceHistory, alarms, nextAlarm, resetIntervals, timers,
          modalStack, lastApiCall, ticks, monitoring, lastTickAt, storage,
          checked, events, evaluated, sound, fresh>>

\* ------------------------------------------------------------------------
\* Helpers
\* ------------------------------------------------------------------------
Abs(x) == IF x < 0 THEN -x ELSE x
Max(x, y) == IF x >= y THEN x ELSE y

\* Map.delete on a function
Without(f, k) == [x \in (DOMAIN f) \ {k} |-> f[x]]
\* Map.set on a function
With(f, k, v) == [x \in (DOMAIN f) \cup {k} |-> IF x = k THEN v ELSE f[x]]

\* this.priceHistory.get(ticker) || []
HistoryOf(hist, ticker) == IF ticker \in DOMAIN hist THEN hist[ticker] ELSE <<>>

\* ------------------------------------------------------------------------
\* Alarm rule evaluators
\* ------------------------------------------------------------------------
\* eps = Math.max(1e-8, Math.abs(targetPrice) * 1e-6), in grid units,
\* rounded down (both sides of every comparison with eps are integers).
Eps(targetPrice) == Max(EpsMin, Abs(targetPrice) \div EpsRatio)

\* A comparison with the current price that leaves the tolerance out.
checkOnPriceAloneExact(alarm, asset) ==
    IF alarm.direction = "up" THEN asset.price >= alarm.targetPrice
    ELSE IF alarm.direction = "down" THEN asset.price <= alarm.targetPrice
    ELSE asset.price = alarm.targetPrice

\* The branch of checkTargetAlarm for history.length < 2: the tolerance
\* comparison against the current price only.
checkOnPriceAlone(alarm, asset) ==
    LET currentPrice == asset.price
        targetPrice == alarm.targetPrice
        eps == Eps(targetPrice)
    IN  IF alarm.direction = "up" THEN currentPrice + eps >= targetPrice
        ELSE IF alarm.direction = "down" THEN currentPrice - eps <= targetPrice
        ELSE Abs(currentPrice - targetPrice) <= eps

checkTargetAlarmNoPrev(alarm, asset, history) ==
    LET currentPrice == asset.price
        targetPrice == alarm.targetPrice
        eps == Eps(targetPrice)
    IN  IF alarm.direction = "up" THEN currentPrice + eps >= targetPrice
        ELSE IF alarm.direction = "down" THEN currentPrice - eps <= targetPrice
        ELSE Abs(currentPrice - targetPrice) <= eps

checkTargetAlarm(alarm, asset, history) ==
    LET currentPrice == asset.price
        targetPrice == alarm.targetPrice
        eps == Eps(targetPrice)
    IN  IF Len(history) < 2
        THEN checkOnPriceAlone(alarm, asset)
        ELSE LET previousPrice == history[Len(history) - 1].price
             IN  IF alarm.direction = "up"
                 THEN previousPrice < targetPrice /\ currentPrice + eps >= targetPrice
                 ELSE IF alarm.direction = "down"
                 THEN previousPrice > targetPrice /\ currentPrice - eps <= targetPrice
                 ELSE \/ (previousPrice < targetPrice /\ currentPrice + eps >= targetPrice)
                      \/ (previousPrice > targetPrice /\ currentPrice - eps <= targetPrice)

\* percentDown = (maxPrice - currentPrice) / maxPrice * 100 >= percentage,
\* with both sides multiplied by maxPrice > 0 (minPrice > 0 for "min").
checkExtremeAlarmBuggy(alarm, asset) ==
    IF alarm.extremeType = "max"
    THEN (asset.maxPrice - asset.price) * 100 > alarm.percentage * asset.maxPrice
    ELSE (asset.price - asset.minPrice) * 100 > alarm.percentage * asset.minPrice

checkExtremeAlarm(alarm, asset) ==
    LET currentPrice == asset.price
    IN  IF alarm.extremeType = "max"
        THEN (asset.maxPrice - currentPrice) * 100 >= alarm.percentage * asset.maxPrice
        ELSE (currentPrice - asset.minPrice) * 100 >= alarm.percentage * asset.minPrice

getTimeframeMs(alarm) ==
    IF alarm.timeUnit = "minutes" THEN alarm.timeValue * MinuteMs
    ELSE IF alarm.timeUnit = "hours" THEN alarm.timeValue * 60 * MinuteMs
    ELSE IF alarm.timeUnit = "days" THEN alarm.timeValue * DayMs
    ELSE alarm.timeValue * MinuteMs

\* Window start of a timeframe alarm at time t.
StartTimeOf(alarm, t) ==
    IF alarm.timeUnit = "since_start"
    THEN (IF alarm.lastResetTime # NoTime THEN alarm.lastResetTime ELSE alarm.createdAt)
    ELSE t - getTimeframeMs(alarm)

\* Returns <<>> for null, or <<n>> where the percent change is
\* n / startPrice (n = (currentPrice - startPrice) * 100, startPrice > 0).
checkTimeframeAlarmOldest(alarm, asset, history, t) ==
    IF Len(history) < 2 THEN <<>>
    ELSE LET startPrice == history[1].price
             n == (asset.price - startPrice) * 100
             bound == alarm.percentage * startPrice
             triggered ==
                IF alarm.direction = "up" THEN n >= bound
                ELSE IF alarm.direction = "down" THEN n <= -bound
                ELSE Abs(n) >= bound
         IN  IF triggered THEN <<n>> ELSE <<>>

checkTimeframeAlarm(alarm, asset, history, t) ==
    IF Len(history) < 2 THEN <<>>
    ELSE
    LET startTime == StartTimeOf(alarm, t)
        InWindow(h) == h.timestamp >= startTime
        relevantHistory == SelectSeq(history, InWindow)
    IN  IF relevantHistory = <<>> THEN <<>>
        ELSE LET startPrice == relevantHistory[1].price
                 n == (asset.price - startPrice) * 100
                 bound == alarm.percentage * startPrice
                 triggered ==
                    IF alarm.direction = "up" THEN n >= bound
                    ELSE IF alarm.direction = "down" THEN n <= -bound
                    ELSE Abs(n) >= bound
             IN  IF triggered THEN <<n>> ELSE <<>>

\* ------------------------------------------------------------------------
\* checkAlarms
\* ------------------------------------------------------------------------
IsSinceStart(alarm) == alarm.type = "timeframe" /\ alarm.timeUnit = "since_start"

\* The early returns of the forEach body: triggered alarms and alarms whose
\* asset is not tracked are not evaluated.
SkipsNothing(alarm, assetMap) == alarm.ticker \notin DOMAIN assetMap
Skips(alarm, assetMap) == alarm.triggered \/ alarm.ticker \notin DOMAIN assetMap

\* A direction taken from the price alone.
TargetDirectionByPrice(alarm, asset) ==
    IF asset.price >= alarm.targetPrice THEN "up" ELSE "down"

\* The direction checkAlarms hands to triggerAlarm for a target alarm.
TargetDirection(alarm, asset) ==
    IF alarm.direction = "up" \/ asset.price >= alarm.targetPrice THEN "up" ELSE "down"

\* The switch of checkAlarms: <<>> when shouldTrigger is false, otherwise
\* <<direction>> with the direction handed to triggerAlarm.
Verdict(alarm, asset, history, t) ==
    IF alarm.type = "target"
    THEN IF checkTargetAlarm(alarm, asset, history)
         THEN <<TargetDirection(alarm, asset)>>
         ELSE <<>>
    ELSE IF alarm.type = "extreme"
    THEN IF checkExtremeAlarm(alarm, asset)
         THEN <<IF alarm.extremeType = "max" THEN "down" ELSE "up">>
         ELSE <<>>
    ELSE LET priceMovement == checkTimeframeAlarm(alarm, asset, history, t)
         IN  IF priceMovement # <<>>
             THEN <<IF priceMovement[1] > 0 THEN "up" ELSE "down">>
             ELSE <<>>

\* The state change of an alarm whose shouldTrigger is true.
AfterTriggerLatching(alarm, t) == [alarm EXCEPT !.triggered = TRUE, !.triggeredAt = t]
AfterTrigger(alarm, t) ==
    IF IsSinceStart(alarm)
    THEN [alarm EXCEPT !.lastResetTime = t]
    ELSE [alarm EXCEPT !.triggered = TRUE, !.triggeredAt = t]

EvaluatedIds(alarmMap, assetMap) ==
    {id \in DOMAIN alarmMap : ~Skips(alarmMap[id], assetMap)}

VerdictOf(id, alarmMap, assetMap, hist, t) ==
    Verdict(alarmMap[id], assetMap[alarmMap[id].ticker],
            HistoryOf(hist, alarmMap[id].ticker), t)

FiredIds(alarmMap, assetMap, hist, t) ==
    {id \in EvaluatedIds(alarmMap, assetMap) :
        VerdictOf(id, alarmMap, assetMap, hist, t) # <<>>}

\* A pass that ends with the first alarm that fires.
RECURSIVE TriggerEventsFirstOnly(_, _, _, _, _)
TriggerEventsFirstOnly(i, alarmMap, assetMap, hist, t) ==
    IF i \notin AlarmIds THEN <<>>
    ELSE IF i \in FiredIds(alarmMap, assetMap, hist, t)
         THEN <<[id |-> i, type |-> alarmMap[i].type,
                 direction |-> VerdictOf(i, alarmMap, assetMap, hist, t)[1]]>>
         ELSE TriggerEventsFirstOnly(i + 1, alarmMap, assetMap, hist, t)

\* The trigger events of one pass, in Map iteration order (ascending id).
RECURSIVE TriggerEvents(_, _, _, _, _)
TriggerEvents(i, alarmMap, assetMap, hist, t) ==
    IF i \notin AlarmIds THEN <<>>
    ELSE (IF i \in FiredIds(alarmMap, assetMap, hist, t)
          THEN <<[id |-> i, type |-> alarmMap[i].type,
                  direction |-> VerdictOf(i, alarmMap, assetMap, hist, t)[1]]>>
          ELSE <<>>)
         \o TriggerEvents(i + 1, alarmMap, assetMap, hist, t)

AlarmsAfterCheck(alarmMap, assetMap, hist, t) ==
    [id \in DOMAIN alarmMap |->
        IF id \in FiredIds(alarmMap, assetMap, hist, t)
        THEN AfterTrigger(alarmMap[id], t) ELSE alarmMap[id]]

\* saveToStorage: a JSON snapshot of the three maps.
Snapshot(assetMap, alarmMap, hist) ==
    [assets |-> assetMap, alarms |-> alarmMap, priceHistory |-> hist]

\* The alarm sound. playing is this.alarmSoundPlaying; current is 1 while
\* this.alarmOscillator and this.alarmPulseInterval refer to a running
\* oscillator and interval; leaked counts the running oscillators (with
\* their pulse intervals) that no field refers to any more; test says that
\* the modal of triggerTestAlarm is on the screen.
Silent == [playing |-> FALSE, current |-> 0, leaked |-> 0, test |-> FALSE]

\* playAlarmSound(): a new oscillator and a new pulse interval are stored
\* in the fields, whatever the fields referred to before.
playAlarmSound(s) ==
    [s EXCEPT !.playing = TRUE, !.current = 1, !.leaked = @ + s.current]

\* stopAlarmSound(): stops what the fields refer to.
stopAlarmSound(s) == [s EXCEPT !.playing = FALSE, !.current = 0]

\* checkAlarms() on the given asset state; saved is the snapshot in storage
\* when it starts.  Each firing alarm is mutated, saved and handed to
\* triggerAlarm, which pushes it on the modal stack.
checkAlarms(assetMap, hist, saved) ==
    LET after == AlarmsAfterCheck(alarms, assetMap, hist, now)
        fired == TriggerEvents(1, alarms, assetMap, hist, now)
    IN  /\ alarms' = after
        /\ checked' = TRUE
        /\ events' = fired
        /\ evaluated' = EvaluatedIds(alarms, assetMap)
        \* triggerAlarm starts the sound unless alarmSoundPlaying is set
        /\ sound' = IF fired # <<>> /\ ~sound.playing THEN playAlarmSound(sound) ELSE sound
        /\ fresh' = {}
        /\ modalStack' = modalStack \o fired
        /\ storage' = IF fired # <<>> THEN Snapshot(assetMap, after, hist) ELSE saved

EventIds(evs) == {evs[i].id : i \in DOMAIN evs}

\* ------------------------------------------------------------------------
\* Rate-limit gate and the fetches of one updateAllPrices call
\* ------------------------------------------------------------------------
\* A slot of `ticks` holds one running asynchronous call: an updateAllPrices
\* call (of init() or of the interval) or an addAsset call at its first
\* (fetchCoinId) or second (fetchPrice) request.
IdleTick == [kind |-> "idle", fetch |-> <<>>]
UpdateKinds == {"init", "interval"}
AddKinds == {"addCoin", "addPrice"}
\* One fetch closure: where it stands, when its sleep ends, how many
\* throttling responses this call has received so far, and whether it
\* returned with price data that was applied. The closure holds a reference
\* to an asset object: gen tells which object (assets[a].gen is the one in
\* the Map), obj holds the object's fields once it is no longer the Map's
\* value (<<>> while it is).
Inflight == [stage |-> "inflight", wakeAt |-> NoTime, throttled |-> 0, applied |-> FALSE,
             gen |-> 0, obj |-> <<>>]
Done(ok) == [stage |-> "done", wakeAt |-> NoTime, throttled |-> 0, applied |-> ok,
             gen |-> 0, obj |-> <<>>]
Waiting(stage, t) == [stage |-> stage, wakeAt |-> t, throttled |-> 0, applied |-> FALSE,
                      gen |-> 0, obj |-> <<>>]
Dispatch(f) == [f EXCEPT !.stage = "inflight", !.wakeAt = NoTime]
Sleep(f, stage, t) == [f EXCEPT !.stage = stage, !.wakeAt = t]

\* waitForRateLimit() called at time t with this.lastApiCall = last: the
\* caller passes at once, or sleeps until last + minApiDelay.
GateOpen(last, t) == t - last >= MinApiDelay
GateWakeAt(last) == last + MinApiDelay

\* The synchronous prefix of updateAllPrices: every tracked asset calls
\* fetchPrice in Map order; the first caller may pass the gate and stamps
\* lastApiCall, the others then find the gate closed.
Tracked(assetMap) == SelectSeq(TickerOrder, LAMBDA a : a \in DOMAIN assetMap)

LaunchFetches(assetMap, last, t) ==
    LET order == Tracked(assetMap)
        open == GateOpen(last, t)
    IN  [a \in DOMAIN assetMap |->
            [(IF open /\ a = order[1] THEN Inflight
              ELSE Waiting("gate", IF open THEN GateWakeAt(t) ELSE GateWakeAt(last)))
             EXCEPT !.gen = assetMap[a].gen]]

LaunchStamp(assetMap, last, t) ==
    IF GateOpen(last, t) /\ DOMAIN assetMap # {} THEN t ELSE last

LowestIdle(k) ==
    /\ ticks[k].kind = "idle"
    /\ \A j \in TickIds : j < k => ticks[j].kind # "idle"

AllDone(fetch) == \A a \in DOMAIN fetch : fetch[a].stage = "done"

\* ------------------------------------------------------------------------
\* Start-up: loadFromStorage, rehydrateResetTimers, first updateAllPrices
\* ------------------------------------------------------------------------
InCooldownAt(alarm, t) == alarm.resetUntil # NoTime /\ alarm.resetUntil > t
ExpiredAt(alarm, t) == alarm.resetUntil # NoTime /\ alarm.resetUntil <= t

\* A re-arming that leaves the deadline in place.
FinalizedKeepingDeadline(alarm) ==
    [alarm EXCEPT !.resetting = "false", !.triggered = FALSE]

\* The fields written when a cooldown ends: the alarm is armed again.
Finalized(alarm) ==
    [alarm EXCEPT !.resetUntil = NoTime, !.resetting = "false", !.triggered = FALSE]

\* rehydrateResetTimers: the alarm map after the forEach.
RehydratedFresh(alarmMap, t) ==
    [id \in DOMAIN alarmMap |->
        IF InCooldownAt(alarmMap[id], t)
        THEN [alarmMap[id] EXCEPT !.resetUntil = t + ResetCooldownMs]
        ELSE IF ExpiredAt(alarmMap[id], t) THEN Finalized(alarmMap[id])
        ELSE alarmMap[id]]
Rehydrated(alarmMap, t) ==
    [id \in DOMAIN alarmMap |->
        IF ExpiredAt(alarmMap[id], t) THEN Finalized(alarmMap[id]) ELSE alarmMap[id]]

\* A setInterval of a cooldown: which code created it, and, once its alarm
\* has left this.alarms, the resetUntil of the alarm object its callback
\* closes over (NoTime while the alarm is in the Map: same object).
Timer(kind) == [kind |-> kind, until |-> NoTime]
NoTimer == Timer("none")

\* rehydrateResetTimers: the intervals it creates.
RehydratedTimers(alarmMap, t) ==
    [id \in AlarmIds |->
        IF id \in DOMAIN alarmMap /\ InCooldownAt(alarmMap[id], t)
        THEN Timer("rehydrated") ELSE NoTimer]

\* The constructor and the synchronous part of init(), run at time t on
\* the stored snapshot st: the value of every field afterwards.
Boot(st, t) ==
    LET loaded == Rehydrated(st.alarms, t)
        hasAssets == DOMAIN st.assets # {}
    IN  [assets |-> st.assets,
         priceHistory |-> st.priceHistory,
         alarms |-> loaded,
         timers |-> RehydratedTimers(st.alarms, t),
         resetIntervals |-> {id \in DOMAIN st.alarms : InCooldownAt(st.alarms[id], t)},
         storage |-> Snapshot(st.assets, loaded, st.priceHistory),
         ticks |-> [k \in TickIds |->
                       IF hasAssets /\ k = 1
                       THEN [kind |-> "init", fetch |-> LaunchFetches(st.assets, NoTime, t)]
                       ELSE IdleTick],
         lastApiCall |-> LaunchStamp(st.assets, NoTime, t),
         monitoring |-> ~hasAssets,
         lastTickAt |-> IF hasAssets THEN NoTime ELSE t]

\* ------------------------------------------------------------------------
\* The tick: updateAllPrices followed by checkAlarms
\* ------------------------------------------------------------------------
\* The continuation after `await this.updateAllPrices()`: saveToStorage,
\* then checkAlarms in the interval callback, or startMonitoring in init().
FinishTick(kind, assetMap, hist) ==
    IF kind = "interval"
    THEN /\ checkAlarms(assetMap, hist, Snapshot(assetMap, alarms, hist))
         /\ UNCHANGED <<monitoring, lastTickAt>>
    ELSE /\ storage' = Snapshot(assetMap, alarms, hist)
         /\ monitoring' = TRUE
         /\ lastTickAt' = now
         /\ checked' = FALSE
         /\ events' = <<>>
         /\ evaluated' = {}
         /\ sound' = sound
         /\ fresh' = fresh \cup {b \in DOMAIN hist : hist[b] # HistoryOf(priceHistory, b)}
         /\ UNCHANGED <<alarms, modalStack>>

\* One fetch closure of tick k returns with the maps as given; when it is
\* the last one, Promise.all resolves and the tick finishes.
Settle(k, a, tickMap, assetMap, hist, ok) ==
    LET fetch2 == [tickMap[k].fetch EXCEPT ![a] = Done(ok)]
    IN  /\ assets' = assetMap
        /\ priceHistory' = hist
        /\ IF AllDone(fetch2)
           THEN /\ ticks' = [tickMap EXCEPT ![k] = IdleTick]
                /\ FinishTick(tickMap[k].kind, assetMap, hist)
           ELSE /\ ticks' = [tickMap EXCEPT ![k].fetch = fetch2]
                /\ checked' = FALSE
                /\ events' = <<>>
                /\ evaluated' = {}
                /\ sound' = sound
                /\ fresh' = fresh \cup {b \in DOMAIN hist : hist[b] # HistoryOf(priceHistory, b)}
                /\ UNCHANGED <<alarms, modalStack, storage, monitoring, lastTickAt>>

\* The setInterval callback of startMonitoring fires.
StartTick(k) ==
    /\ monitoring
    /\ LowestIdle(k)
    /\ now >= lastTickAt + TickMs
    /\ lastTickAt' = now
    /\ lastApiCall' = LaunchStamp(assets, lastApiCall, now)
    /\ IF DOMAIN assets = {}
       THEN /\ checkAlarms(assets, priceHistory, Snapshot(assets, alarms, priceHistory))
            /\ UNCHANGED ticks
       ELSE /\ ticks' = [ticks EXCEPT ![k] =
                            [kind |-> "interval",
                             fetch |-> LaunchFetches(assets, lastApiCall, now)]]
            /\ checked' = FALSE
            /\ events' = <<>>
            /\ evaluated' = {}
            /\ sound' = sound
            /\ fresh' = fresh
            /\ UNCHANGED <<alarms, modalStack, storage>>
    /\ UNCHANGED <<now, assets, priceHistory, nextAlarm, resetIntervals, timers, monitoring>>

\* The timeout of waitForRateLimit elapses: the clock has reached the wake
\* time (or is already past it); stamp lastApiCall and dispatch.
GateWake(k, a) ==
    /\ a \in DOMAIN ticks[k].fetch
    /\ ticks[k].fetch[a].stage = "gate"
    /\ Max(now, ticks[k].fetch[a].wakeAt) <= MaxTime + MinApiDelay
    /\ now' = Max(now, ticks[k].fetch[a].wakeAt)
    /\ lastApiCall' = now'
    /\ ticks' = [ticks EXCEPT ![k].fetch[a] = Dispatch(@)]
    /\ checked' = FALSE
    /\ events' = <<>>
    /\ evaluated' = {}
    /\ sound' = sound
    /\ fresh' = fresh
    /\ UNCHANGED <<assets, priceHistory, alarms, nextAlarm, resetIntervals, timers,
                   modalStack, monitoring, lastTickAt, storage>>

\* The upstream answers 429: the fetch sleeps 60 s before calling itself.
Respond429(k, a) ==
    /\ a \in DOMAIN ticks[k].fetch
    /\ ticks[k].fetch[a].stage = "inflight"
    /\ ticks' = [ticks EXCEPT ![k].fetch[a] =
                    [Sleep(@, "backoff", now + RateLimitBackoffMs)
                        EXCEPT !.throttled = @ + 1]]
    /\ checked' = FALSE
    /\ events' = <<>>
    /\ evaluated' = {}
    /\ sound' = sound
    /\ fresh' = fresh
    /\ UNCHANGED <<now, assets, priceHistory, alarms, nextAlarm, resetIntervals, timers,
                   modalStack, lastApiCall, monitoring, lastTickAt, storage>>

\* The 60 s sleep is over: the recursive fetch call goes through the gate.
BackoffWake(k, a) ==
    /\ a \in DOMAIN ticks[k].fetch
    /\ ticks[k].fetch[a].stage = "backoff"
    /\ now >= ticks[k].fetch[a].wakeAt
    /\ IF GateOpen(lastApiCall, now)
       THEN /\ lastApiCall' = now
            /\ ticks' = [ticks EXCEPT ![k].fetch[a] = Dispatch(@)]
       ELSE /\ ticks' = [ticks EXCEPT ![k].fetch[a] =
                            Sleep(@, "gate", GateWakeAt(lastApiCall))]
            /\ UNCHANGED lastApiCall
    /\ checked' = FALSE
    /\ events' = <<>>
    /\ evaluated' = {}
    /\ sound' = sound
    /\ fresh' = fresh
    /\ UNCHANGED <<now, assets, priceHistory, alarms, nextAlarm, resetIntervals, timers,
                   modalStack, monitoring, lastTickAt, storage>>

\* The update of updateAllPrices without the widening of the extrema.
ApplyPriceNoWiden(asset, p, t) ==
    [asset EXCEPT !.price = p, !.change24h = 0, !.lastUpdate = t]

\* The update of one asset object in updateAllPrices.
ApplyPrice(asset, p, t) ==
    [asset EXCEPT !.price = p, !.change24h = 0, !.lastUpdate = t,
                  !.maxPrice = IF p > @ THEN p ELSE @,
                  !.minPrice = IF p < @ THEN p ELSE @]

\* unshift instead of push: the new point goes to the front.
AppendHistoryFront(history, p, t) ==
    SelectSeq(<<[price |-> p, timestamp |-> t]>> \o history,
           LAMBDA h : h.timestamp > t - DayMs)

\* history.push followed by the 24 h filter.
AppendHistory(history, p, t) ==
    SelectSeq(Append(history, [price |-> p, timestamp |-> t]),
           LAMBDA h : h.timestamp > t - DayMs)

\* The asset object the closure f of ticker a refers to: the Map's value,
\* or an object that has left the Map.
IsLive(a, g) == a \in DOMAIN assets /\ assets[a].gen = g
ClosureAsset(f, a) == IF IsLive(a, f.gen) THEN assets[a] ELSE f.obj[1]

\* The closures after the Map's entry of ticker a became newLive (<<>>: the
\* entry was deleted): those that hold the new value see the Map's object,
\* those that held the old value keep the object as it was.
Rebind(tickMap, a, newLive) ==
    [k \in TickIds |->
        LET tick == tickMap[k]
        IN  IF tick.kind \notin UpdateKinds \/ a \notin DOMAIN tick.fetch
                \/ tick.fetch[a].stage = "done"
            THEN tick
            ELSE IF newLive # <<>> /\ tick.fetch[a].gen = newLive[1].gen
            THEN [tick EXCEPT !.fetch[a].obj = <<>>]
            ELSE IF IsLive(a, tick.fetch[a].gen)
            THEN [tick EXCEPT !.fetch[a].obj = <<assets[a]>>]
            ELSE tick]

\* The upstream answers with price p: the closure updates the asset object
\* it holds, pushes onto `this.priceHistory.get(ticker) || []` and sets both
\* Map entries.
RespondOk(k, a, p) ==
    /\ ticks[k].kind \in UpdateKinds
    /\ a \in DOMAIN ticks[k].fetch
    /\ ticks[k].fetch[a].stage = "inflight"
    /\ Len(HistoryOf(priceHistory, a)) < MaxHist
    /\ LET updated == ApplyPrice(ClosureAsset(ticks[k].fetch[a], a), p, now)
       IN  Settle(k, a, Rebind(ticks, a, <<updated>>), With(assets, a, updated),
                  With(priceHistory, a,
                       AppendHistory(HistoryOf(priceHistory, a), p, now)),
                  TRUE)
    /\ UNCHANGED <<now, nextAlarm, resetIntervals, timers, lastApiCall>>

\* A failure that stamps the asset as updated.
RespondFailTouching(k, a) ==
    /\ ticks[k].kind \in UpdateKinds
    /\ a \in DOMAIN ticks[k].fetch
    /\ ticks[k].fetch[a].stage = "inflight"
    /\ a \in DOMAIN assets
    /\ Settle(k, a, ticks, [assets EXCEPT ![a].lastUpdate = now], priceHistory, FALSE)
    /\ UNCHANGED <<now, nextAlarm, resetIntervals, timers, lastApiCall>>

\* The request fails or carries no data: fetchPrice returns null.
RespondFail(k, a) ==
    /\ ticks[k].kind \in UpdateKinds
    /\ a \in DOMAIN ticks[k].fetch
    /\ ticks[k].fetch[a].stage = "inflight"
    /\ Settle(k, a, ticks, assets, priceHistory, FALSE)
    /\ UNCHANGED <<now, nextAlarm, resetIntervals, timers, lastApiCall>>

\* ------------------------------------------------------------------------
\* User commands
\* ------------------------------------------------------------------------
BlankAlarm(ticker, type) ==
    [ticker |-> ticker, type |-> type, targetPrice |-> 0, direction |-> "",
     percentage |-> 0, extremeType |-> "", timeValue |-> 0, timeUnit |-> "",
     triggered |-> FALSE, createdAt |-> now, triggeredAt |-> NoTime,
     lastResetTime |-> NoTime, resetUntil |-> NoTime, resetting |-> "undefined"]

\* this.alarms.set(alarm.id, alarm); this.saveToStorage()
StoreNewAlarm(alarm) ==
    /\ nextAlarm < MaxAlarms
    /\ nextAlarm' = nextAlarm + 1
    /\ alarms' = With(alarms, nextAlarm + 1, alarm)
    /\ storage' = Snapshot(assets, With(alarms, nextAlarm + 1, alarm), priceHistory)
    /\ checked' = FALSE
    /\ events' = <<>>
    /\ evaluated' = {}
    /\ sound' = sound
    /\ fresh' = fresh
    /\ UNCHANGED <<now, assets, priceHistory, resetIntervals, timers, modalStack,
                   lastApiCall, ticks, monitoring, lastTickAt>>

addTargetPriceAlarm(ticker, targetPrice, direction) ==
    /\ ticker \in DOMAIN assets
    /\ StoreNewAlarm([BlankAlarm(ticker, "target") EXCEPT
                        !.targetPrice = targetPrice, !.direction = direction])

addExtremeAlarm(ticker, percentage, extremeType) ==
    /\ ticker \in DOMAIN assets
    /\ StoreNewAlarm([BlankAlarm(ticker, "extreme") EXCEPT
                        !.percentage = percentage, !.extremeType = extremeType])

addTimeframeAlarm(ticker, percentage, direction, timeValue, timeUnit) ==
    /\ ticker \in DOMAIN assets
    /\ StoreNewAlarm([BlankAlarm(ticker, "timeframe") EXCEPT
                        !.percentage = percentage, !.direction = direction,
                        !.timeValue = IF timeUnit = "since_start" THEN 0 ELSE timeValue,
                        !.timeUnit = timeUnit, !.lastResetTime = now])

removeAlarm(alarmId) ==
    /\ alarmId \in DOMAIN alarms
    /\ alarms' = Without(alarms, alarmId)
    /\ storage' = Snapshot(assets, Without(alarms, alarmId), priceHistory)
    \* clearResetCooldown(alarmId)
    /\ timers' = IF alarmId \in resetIntervals
                 THEN [timers EXCEPT ![alarmId] = NoTimer] ELSE timers
    /\ resetIntervals' = resetIntervals \ {alarmId}
    /\ checked' = FALSE
    /\ events' = <<>>
    /\ evaluated' = {}
    /\ sound' = sound
    /\ fresh' = fresh
    /\ UNCHANGED <<now, assets, priceHistory, nextAlarm, modalStack, lastApiCall, ticks,
                   monitoring, lastTickAt>>

\* An asset as addAsset stores it, added at time t with first price p.
NewAsset(ticker, p, t) ==
    [ticker |-> ticker, price |-> p, change24h |-> 0, maxPrice |-> p,
     minPrice |-> p, lastUpdate |-> t, gen |-> 0]

\* waitForRateLimit() at the head of a fetch called at time t: the request
\* goes out at once, or the caller sleeps.
ThroughGate(last, t) ==
    IF GateOpen(last, t) THEN Inflight ELSE Waiting("gate", GateWakeAt(last))
GateStamp(last, t) == IF GateOpen(last, t) THEN t ELSE last

\* addAsset(pair), up to the first await: the pair must not be tracked; the
\* call then waits for fetchCoinId(base).
addAsset(k, pair) ==
    /\ pair \notin DOMAIN assets
    /\ LowestIdle(k)
    /\ ticks' = [ticks EXCEPT ![k] =
                    [kind |-> "addCoin",
                     fetch |-> [a \in {pair} |-> ThroughGate(lastApiCall, now)]]]
    /\ lastApiCall' = GateStamp(lastApiCall, now)
    /\ checked' = FALSE
    /\ events' = <<>>
    /\ evaluated' = {}
    /\ sound' = sound
    /\ fresh' = fresh
    /\ UNCHANGED <<now, assets, priceHistory, alarms, nextAlarm, resetIntervals, timers,
                   modalStack, monitoring, lastTickAt, storage>>

\* fetchCoinId returned the coin: the quote is a stablecoin, so addAsset
\* goes on with fetchPrice(baseCoinInfo.id).
CoinFound(k, pair) ==
    /\ ticks[k].kind = "addCoin"
    /\ pair \in DOMAIN ticks[k].fetch
    /\ ticks[k].fetch[pair].stage = "inflight"
    /\ ticks' = [ticks EXCEPT ![k] =
                    [kind |-> "addPrice",
                     fetch |-> [a \in {pair} |-> ThroughGate(lastApiCall, now)]]]
    /\ lastApiCall' = GateStamp(lastApiCall, now)
    /\ checked' = FALSE
    /\ events' = <<>>
    /\ evaluated' = {}
    /\ sound' = sound
    /\ fresh' = fresh
    /\ UNCHANGED <<now, assets, priceHistory, alarms, nextAlarm, resetIntervals, timers,
                   modalStack, monitoring, lastTickAt, storage>>

\* A failure that leaves an empty history entry for the pair behind.
AddFailsLeavingHistory(k, pair) ==
    /\ ticks[k].kind \in AddKinds
    /\ pair \in DOMAIN ticks[k].fetch
    /\ ticks[k].fetch[pair].stage = "inflight"
    /\ ticks' = [ticks EXCEPT ![k] = IdleTick]
    /\ priceHistory' = With(priceHistory, pair, <<>>)
    /\ checked' = FALSE
    /\ events' = <<>>
    /\ evaluated' = {}
    /\ sound' = sound
    /\ fresh' = fresh
    /\ UNCHANGED <<now, assets, alarms, nextAlarm, resetIntervals, timers,
                   modalStack, lastApiCall, monitoring, lastTickAt, storage>>

\* fetchCoinId or fetchPrice returned null: addAsset shows an error and
\* returns.
AddFails(k, pair) ==
    /\ ticks[k].kind \in AddKinds
    /\ pair \in DOMAIN ticks[k].fetch
    /\ ticks[k].fetch[pair].stage = "inflight"
    /\ ticks' = [ticks EXCEPT ![k] = IdleTick]
    /\ checked' = FALSE
    /\ events' = <<>>
    /\ evaluated' = {}
    /\ sound' = sound
    /\ fresh' = fresh
    /\ UNCHANGED <<now, assets, priceHistory, alarms, nextAlarm, resetIntervals, timers,
                   modalStack, lastApiCall, monitoring, lastTickAt, storage>>

\* The asset objects of ticker a that the Map or a closure still refers to.
UsedGens(a) ==
    {assets[b].gen : b \in DOMAIN assets \cap {a}}
        \cup {ticks[k].fetch[a].gen :
                 k \in {j \in TickIds : /\ ticks[j].kind \in UpdateKinds
                                          /\ a \in DOMAIN ticks[j].fetch
                                          /\ ticks[j].fetch[a].stage # "done"}}
FreshGen(a) ==
    CHOOSE g \in 0 .. (MaxTicks + 1) :
        g \notin UsedGens(a) /\ \A h \in 0 .. (g - 1) : h \in UsedGens(a)

\* fetchPrice returned price p: addAsset builds a new asset object and sets
\* both Map entries without looking at the Maps again, then saves.
PriceFetched(k, pair, p) ==
    LET asset == [NewAsset(pair, p, now) EXCEPT !.gen = FreshGen(pair)]
        assetMap == With(assets, pair, asset)
        hist == With(priceHistory, pair, <<[price |-> p, timestamp |-> now]>>)
    IN  /\ ticks[k].kind = "addPrice"
        /\ pair \in DOMAIN ticks[k].fetch
        /\ ticks[k].fetch[pair].stage = "inflight"
        /\ assets' = assetMap
        /\ priceHistory' = hist
        /\ storage' = Snapshot(assetMap, alarms, hist)
        /\ ticks' = Rebind([ticks EXCEPT ![k] = IdleTick], pair, <<asset>>)
        /\ checked' = FALSE
        /\ events' = <<>>
        /\ evaluated' = {}
        /\ sound' = sound
        /\ fresh' = fresh \ {pair}
        /\ UNCHANGED <<now, alarms, nextAlarm, resetIntervals, timers, modalStack,
                       lastApiCall, monitoring, lastTickAt>>

\* removeAsset(ticker): both Map entries and the alarms of the ticker go, and
\* the snapshot is saved. Nothing here touches resetIntervals or an interval:
\* a timer of a removed alarm keeps running on the alarm object it closed
\* over, and a fetch closure keeps the asset object it closed over.
AlarmsOf(alarmMap, ticker) == {id \in DOMAIN alarmMap : alarmMap[id].ticker = ticker}

\* removeAsset without the removal of the ticker's alarms.
removeAssetKeepingAlarms(ticker) ==
    /\ ticker \in DOMAIN assets
    /\ assets' = Without(assets, ticker)
    /\ priceHistory' = Without(priceHistory, ticker)
    /\ storage' = Snapshot(Without(assets, ticker), alarms, Without(priceHistory, ticker))
    /\ ticks' = Rebind(ticks, ticker, <<>>)
    /\ checked' = FALSE
    /\ events' = <<>>
    /\ evaluated' = {}
    /\ sound' = sound
    /\ fresh' = fresh \ {ticker}
    /\ UNCHANGED <<now, alarms, nextAlarm, resetIntervals, timers, modalStack,
                   lastApiCall, monitoring, lastTickAt>>

removeAsset(ticker) ==
    LET kept == [id \in DOMAIN alarms \ AlarmsOf(alarms, ticker) |-> alarms[id]]
    IN  /\ ticker \in DOMAIN assets
        /\ assets' = Without(assets, ticker)
        /\ priceHistory' = Without(priceHistory, ticker)
        /\ alarms' = kept
        /\ storage' = Snapshot(Without(assets, ticker), kept,
                               Without(priceHistory, ticker))
        /\ ticks' = Rebind(ticks, ticker, <<>>)
        /\ timers' = [id \in AlarmIds |->
                         IF id \in AlarmsOf(alarms, ticker) /\ timers[id].kind # "none"
                         THEN [timers[id] EXCEPT !.until = alarms[id].resetUntil]
                         ELSE timers[id]]
        /\ checked' = FALSE
        /\ events' = <<>>
        /\ evaluated' = {}
        /\ sound' = sound
        /\ fresh' = fresh \ {ticker}
        /\ UNCHANGED <<now, nextAlarm, resetIntervals, modalStack, lastApiCall,
                       monitoring, lastTickAt>>

\* _removeModalInstance(modalEl, alarmId): drops the last stack entry of
\* that alarm.
LastModalOf(stack, alarmId) ==
    CHOOSE j \in DOMAIN stack :
        /\ stack[j].id = alarmId
        /\ \A l \in DOMAIN stack : stack[l].id = alarmId => l <= j

RemoveModal(stack, alarmId) ==
    LET j == LastModalOf(stack, alarmId)
    IN  [l \in 1 .. (Len(stack) - 1) |-> IF l < j THEN stack[l] ELSE stack[l + 1]]

\* Click on DISMISS ALARM of the i-th stacked modal.
DismissModal(i) ==
    /\ i \in DOMAIN modalStack
    /\ modalStack' = RemoveModal(modalStack, modalStack[i].id)
    /\ checked' = FALSE
    /\ events' = <<>>
    /\ evaluated' = {}
    /\ sound' = IF modalStack' = <<>> THEN stopAlarmSound(sound) ELSE sound
    /\ fresh' = fresh
    /\ UNCHANGED <<now, assets, priceHistory, alarms, nextAlarm, resetIntervals, timers,
                   lastApiCall, ticks, monitoring, lastTickAt, storage>>

\* The fields startResetCooldown writes on a target alarm.
CoolingFresh(alarm, t) == [alarm EXCEPT !.resetUntil = t, !.resetting = "true"]
Cooling(alarm, t) == [alarm EXCEPT !.resetUntil = t + ResetCooldownMs, !.resetting = "true"]

\* A restart that registers an interval whether or not the alarm exists.
startResetCooldownUnguarded(alarmId) ==
    /\ alarms' = IF alarmId \in DOMAIN alarms
                  THEN [alarms EXCEPT ![alarmId] = Cooling(@, now)] ELSE alarms
    /\ storage' = Snapshot(assets, alarms', priceHistory)
    /\ timers' = [timers EXCEPT ![alarmId] = Timer("cooldown")]
    /\ resetIntervals' = resetIntervals \cup {alarmId}

\* startResetCooldown(alarmId): the maps afterwards.
startResetCooldown(alarmId) ==
    IF alarmId \in DOMAIN alarms /\ alarms[alarmId].type = "target"
    THEN /\ alarms' = [alarms EXCEPT ![alarmId] = Cooling(@, now)]
         /\ storage' = Snapshot(assets, [alarms EXCEPT ![alarmId] = Cooling(@, now)],
                                priceHistory)
         /\ timers' = [timers EXCEPT ![alarmId] = Timer("cooldown")]
         /\ resetIntervals' = resetIntervals \cup {alarmId}
    ELSE UNCHANGED <<alarms, storage, timers, resetIntervals>>

\* Click on RESTART (60s) of the i-th stacked modal (target alarms only).
RestartModal(i) ==
    /\ i \in DOMAIN modalStack
    /\ modalStack[i].type = "target"
    /\ startResetCooldown(modalStack[i].id)
    /\ modalStack' = RemoveModal(modalStack, modalStack[i].id)
    /\ checked' = FALSE
    /\ events' = <<>>
    /\ evaluated' = {}
    /\ sound' = IF modalStack' = <<>> THEN stopAlarmSound(sound) ELSE sound
    /\ fresh' = fresh
    /\ UNCHANGED <<now, assets, priceHistory, nextAlarm, lastApiCall, ticks,
                   monitoring, lastTickAt>>

\* ------------------------------------------------------------------------
\* The 1 s interval of a cooldown
\* ------------------------------------------------------------------------
\* A callback that takes every cooldown for over.
StillCoolingNever(alarm, t) == alarm.resetUntil = NoTime

\* The test of the interval callback: still cooling down at time t.
StillCooling(alarm, t) == alarm.resetUntil # NoTime /\ alarm.resetUntil > t

\* The resetUntil of the alarm object the callback closes over.
ClosureAlarm(alarmId) ==
    [resetUntil |-> IF alarmId \in DOMAIN alarms
                    THEN alarms[alarmId].resetUntil ELSE timers[alarmId].until]

\* One run of the interval callback; at expiry it clears the interval and
\* finalizes the alarm it finds in this.alarms, if any.
CooldownTimer(alarmId) ==
    /\ timers[alarmId].kind # "none"
    /\ IF StillCooling(ClosureAlarm(alarmId), now)
       THEN UNCHANGED <<alarms, storage, timers, resetIntervals>>
       ELSE /\ timers' = [timers EXCEPT ![alarmId] = NoTimer]
            /\ resetIntervals' = IF timers[alarmId].kind = "cooldown"
                                 THEN resetIntervals \ {alarmId} ELSE resetIntervals
            /\ IF alarmId \in DOMAIN alarms
               THEN /\ alarms' = [alarms EXCEPT ![alarmId] = Finalized(@)]
                    /\ storage' = Snapshot(assets,
                                           [alarms EXCEPT ![alarmId] = Finalized(@)],
                                           priceHistory)
               ELSE UNCHANGED <<alarms, storage>>
    /\ checked' = FALSE
    /\ events' = <<>>
    /\ evaluated' = {}
    /\ sound' = sound
    /\ fresh' = fresh
    /\ UNCHANGED <<now, assets, priceHistory, nextAlarm, modalStack, lastApiCall, ticks,
                   monitoring, lastTickAt>>

\* ------------------------------------------------------------------------
\* Time and page reload
\* ------------------------------------------------------------------------
\* The clock moves on to the next multiple of StepMs.
NextStep(t) == StartTime + ((t - StartTime) \div StepMs + 1) * StepMs

Advance ==
    /\ NextStep(now) <= MaxTime
    /\ now' = NextStep(now)
    /\ checked' = FALSE
    /\ events' = <<>>
    /\ evaluated' = {}
    /\ sound' = sound
    /\ fresh' = fresh
    /\ UNCHANGED <<assets, priceHistory, alarms, nextAlarm, resetIntervals, timers,
                   modalStack, lastApiCall, ticks, monitoring, lastTickAt, storage>>

\* The page is reloaded: a new CryptoPriceAlarm is constructed from
\* localStorage; the timers, modals and fetches of the old page are gone.
Reload ==
    LET b == Boot(storage, now)
    IN  /\ assets' = b.assets
        /\ priceHistory' = b.priceHistory
        /\ alarms' = b.alarms
        /\ timers' = b.timers
        /\ resetIntervals' = b.resetIntervals
        /\ storage' = b.storage
        /\ ticks' = b.ticks
        /\ lastApiCall' = b.lastApiCall
        /\ monitoring' = b.monitoring
        /\ lastTickAt' = b.lastTickAt
        /\ modalStack' = <<>>
        /\ checked' = FALSE
        /\ events' = <<>>
        /\ evaluated' = {}
        /\ sound' = Silent
        /\ fresh' = {}
        /\ UNCHANGED <<now, nextAlarm>>

\* ------------------------------------------------------------------------
\* Initial states
\* ------------------------------------------------------------------------
AddedAt == StartTime - StepMs

\* localStorage after `tracked` have been added at price 100.
StoredAssets(tracked) ==
    Snapshot([a \in tracked |-> NewAsset(a, 100, AddedAt)], <<>>,
             [a \in tracked |-> <<[price |-> 100, timestamp |-> AddedAt]>>])

InitFrom(st, n) ==
    LET b == Boot(st, StartTime)
    IN  /\ now = StartTime
        /\ nextAlarm = n
        /\ assets = b.assets
        /\ priceHistory = b.priceHistory
        /\ alarms = b.alarms
        /\ timers = b.timers
        /\ resetIntervals = b.resetIntervals
        /\ storage = b.storage
        /\ ticks = b.ticks
        /\ lastApiCall = b.lastApiCall
        /\ monitoring = b.monitoring
        /\ lastTickAt = b.lastTickAt
        /\ modalStack = <<>>
        /\ checked = FALSE
        /\ events = <<>>
        /\ evaluated = {}
        /\ sound = Silent
        /\ fresh = {}

Init == InitFrom(StoredAssets({"BTCUSDT"}), 0)

Fetching ==
    \E k \in TickIds, a \in Tickers :
        \/ GateWake(k, a)
        \/ Respond429(k, a)
        \/ BackoffWake(k, a)
        \/ RespondFail(k, a)
        \/ \E p \in Prices : RespondOk(k, a, p)

\* The upstream never throttles: every request is answered or fails.
Answering ==
    \E k \in TickIds, a \in Tickers :
        \/ RespondFail(k, a)
        \/ \E p \in Prices : RespondOk(k, a, p)

\* The user creates alarms during the first step after the page is loaded:
\* Target and Extreme alarms in Spec, Timeframe alarms in SpecTimeframe.
AddingAlarms ==
    \E ticker \in {a \in Tickers : now = StartTime} :
        \/ \E tp \in Targets, d \in TargetDirections : addTargetPriceAlarm(ticker, tp, d)
        \/ \E pc \in Percentages, e \in ExtremeTypes : addExtremeAlarm(ticker, pc, e)

AddingTimeframes ==
    \E ticker \in {a \in Tickers : now = StartTime} :
        \E pc \in Percentages, d \in MoveDirections, tv \in TimeValues, tu \in TimeUnits :
            addTimeframeAlarm(ticker, pc, d, tv, tu)

\* The life cycle of Target and Extreme alarms on one pair. Throttled
\* requests are left to SpecTicks, FairSpec and SpecMulti.
Next ==
    \/ Advance
    \/ \E k \in TickIds : StartTick(k)
    \/ Answering
    \/ AddingAlarms
    \/ \E id \in AlarmIds : removeAlarm(id)
    \/ \E i \in 1 .. (2 * MaxSteps + 2) : DismissModal(i)
    \/ \E i \in 1 .. (2 * MaxSteps + 2) : RestartModal(i)
    \/ \E id \in AlarmIds : CooldownTimer(id)
    \/ Reload

Spec == Init /\ [][Next]_vars

\* Timeframe alarms have no restart button, so no cooldown ever runs.
NextTimeframe ==
    \/ Advance
    \/ \E k \in TickIds : StartTick(k)
    \/ Answering
    \/ AddingTimeframes
    \/ \E id \in AlarmIds : removeAlarm(id)
    \/ \E i \in 1 .. (2 * MaxSteps + 2) : DismissModal(i)
    \/ Reload

SpecTimeframe == Init /\ [][NextTimeframe]_vars

\* One tracked pair without alarms: ticks, throttled and unanswered requests,
\* page reloads.
NextTicks ==
    \/ Advance
    \/ \E k \in TickIds : StartTick(k)
    \/ Fetching
    \/ Reload

SpecTicks == Init /\ [][NextTicks]_vars

\* ------------------------------------------------------------------------
\* Evaluation-only specification: one tracked asset with one alarm, drawn
\* from bounded sets, in the middle of a tick whose fetch is in flight; the
\* answer of the upstream completes the tick and runs checkAlarms.
\* ------------------------------------------------------------------------
EvalTicker == "BTCUSDT"
EvalTimes == {StartTime - 3 * StepMs, StartTime - 2 * StepMs, StartTime - StepMs}
EvalCreatedAt == StartTime - 2 * StepMs

EvalPoints == [price : EvalPrices, timestamp : EvalTimes]
EvalHistories ==
    {<<pt>> : pt \in EvalPoints}
    \cup {h \in {<<p1, p2>> : p1 \in EvalPoints, p2 \in EvalPoints} :
            h[1].timestamp < h[2].timestamp}

EvalBlank(type) ==
    [ticker |-> EvalTicker, type |-> type, targetPrice |-> 0, direction |-> "",
     percentage |-> 0, extremeType |-> "", timeValue |-> 0, timeUnit |-> "",
     triggered |-> FALSE, createdAt |-> EvalCreatedAt, triggeredAt |-> NoTime,
     lastResetTime |-> NoTime, resetUntil |-> NoTime, resetting |-> "undefined"]

EvalAlarms ==
    {[EvalBlank("target") EXCEPT !.targetPrice = tp, !.direction = d] :
        tp \in EvalTargets, d \in Directions}
    \cup {[EvalBlank("extreme") EXCEPT !.percentage = pc, !.extremeType = e] :
        pc \in EvalPercentages, e \in EvalExtremeTypes}
    \cup {[EvalBlank("timeframe") EXCEPT !.percentage = pc, !.direction = d,
                                         !.timeValue = 1, !.timeUnit = "minutes",
                                         !.lastResetTime = EvalCreatedAt] :
        pc \in EvalPercentages, d \in Directions}
    \cup {[EvalBlank("timeframe") EXCEPT !.percentage = pc, !.direction = d,
                                         !.timeUnit = "since_start",
                                         !.lastResetTime = r] :
        pc \in EvalPercentages, d \in Directions, r \in {EvalCreatedAt, StartTime}}

InitEval ==
    \E history \in EvalHistories, mx \in EvalPrices, mn \in EvalPrices, alarm \in EvalAlarms :
        LET last == history[Len(history)]
            asset == [ticker |-> EvalTicker, price |-> last.price, change24h |-> 0,
                      maxPrice |-> mx, minPrice |-> mn, lastUpdate |-> last.timestamp,
                      gen |-> 0]
        IN  /\ \A i \in DOMAIN history : mn <= history[i].price /\ history[i].price <= mx
            /\ now = StartTime
            /\ nextAlarm = 1
            /\ assets = [a \in {EvalTicker} |-> asset]
            /\ priceHistory = [a \in {EvalTicker} |-> history]
            /\ alarms = <<alarm>>
            /\ timers = [id \in AlarmIds |-> NoTimer]
            /\ resetIntervals = {}
            /\ storage = Snapshot([a \in {EvalTicker} |-> asset], <<alarm>>,
                                  [a \in {EvalTicker} |-> history])
            /\ ticks = [k \in TickIds |->
                          IF k = 1
                          THEN [kind |-> "interval",
                                fetch |-> [a \in {EvalTicker} |-> Inflight]]
                          ELSE IdleTick]
            /\ lastApiCall = StartTime
            /\ monitoring = TRUE
            /\ lastTickAt = StartTime
            /\ modalStack = <<>>
            /\ checked = FALSE
            /\ events = <<>>
            /\ evaluated = {}
            /\ sound = Silent
            /\ fresh = {}

NextEval ==
    \/ \E p \in EvalPrices : RespondOk(1, EvalTicker, p)
    \/ RespondFail(1, EvalTicker)

SpecEval == InitEval /\ [][NextEval]_vars

\* ------------------------------------------------------------------------
\* Properties
\* ------------------------------------------------------------------------
Fired(id) == id \in EventIds(events)
DirectionOf(id) == events[CHOOSE i \in DOMAIN events : events[i].id = id].direction

\* The tolerance of the claims: eps = max(1e-8, |T| * 1e-6) in grid units;
\* d <= eps for an integer d is d <= 1 or d <= |T| / 10^6 rounded down.
WithinEps(d, T) == d <= 1 \/ d <= Abs(T) \div 1000000

CrossedUp(prev, curr, T) == prev < T /\ WithinEps(T - curr, T)
CrossedDown(prev, curr, T) == prev > T /\ WithinEps(curr - T, T)

\* C2: a Target alarm evaluated with at least 2 history points fires iff the
\* previous point was below the target and the current price reaches it
\* within eps (up), the mirror image (down), or either of the two (any);
\* an up alarm never fires when the current price is below target - eps.
C2_TargetCrossing ==
    checked =>
        \A id \in evaluated :
            LET al == alarms[id]
                h == HistoryOf(priceHistory, al.ticker)
                curr == assets[al.ticker].price
                T == al.targetPrice
            IN  (al.type = "target" /\ Len(h) >= 2) =>
                    LET prev == h[Len(h) - 1].price
                        up == CrossedUp(prev, curr, T)
                        down == CrossedDown(prev, curr, T)
                    IN  /\ al.direction = "up" => (Fired(id) <=> up)
                        /\ al.direction = "down" => (Fired(id) <=> down)
                        /\ al.direction = "any" => (Fired(id) <=> (up \/ down))
                        /\ (al.direction = "up" /\ ~WithinEps(T - curr, T)) => ~Fired(id)

\* Witness of C2: an up alarm fired with the price still below the target,
\* inside the relative tolerance, after a previous point below the target.
C2_Witness ==
    /\ checked
    /\ \E id \in evaluated :
          /\ alarms[id].type = "target"
          /\ alarms[id].direction = "up"
          /\ Len(priceHistory[alarms[id].ticker]) >= 2
          /\ alarms[id].targetPrice - assets[alarms[id].ticker].price > 1
          /\ Fired(id)

\* C3: an Extreme alarm on the maximum fires iff
\* (maxPrice - price) / maxPrice * 100 >= percentage and reports down; on
\* the minimum iff (price - minPrice) / minPrice * 100 >= percentage and
\* reports up; a higher percentage never turns a non-fire into a fire.
C3_ExtremeRetrace ==
    checked =>
        \A id \in evaluated :
            LET al == alarms[id]
                asset == assets[al.ticker]
            IN  al.type = "extreme" =>
                    /\ al.extremeType = "max" =>
                          /\ Fired(id) <=> ((asset.maxPrice - asset.price) * 100
                                                >= al.percentage * asset.maxPrice)
                          /\ Fired(id) => DirectionOf(id) = "down"
                    /\ al.extremeType = "min" =>
                          /\ Fired(id) <=> ((asset.price - asset.minPrice) * 100
                                                >= al.percentage * asset.minPrice)
                          /\ Fired(id) => DirectionOf(id) = "up"
                    /\ \A q \in EvalPercentages :
                          (q > al.percentage /\ ~Fired(id)) =>
                              ~checkExtremeAlarm([al EXCEPT !.percentage = q], asset)

\* Witness of C3: a max alarm fired exactly on its threshold.
C3_Witness ==
    /\ checked
    /\ \E id \in evaluated :
          /\ alarms[id].type = "extreme"
          /\ alarms[id].extremeType = "max"
          /\ alarms[id].percentage > 0
          /\ (assets[alarms[id].ticker].maxPrice - assets[alarms[id].ticker].price) * 100
                = alarms[id].percentage * assets[alarms[id].ticker].maxPrice
          /\ Fired(id)

\* C4: a Timeframe alarm with at least one history point at or after the
\* window start fires iff the percent change from the earliest such point
\* is >= percentage (up), <= -percentage (down), or >= percentage in
\* absolute value (any).  (alarms is the map before the pass: a since-start
\* alarm that fires moves its own window start.)
C4_TimeframeMove ==
    [][checked' =>
        \A id \in evaluated' :
            LET al == alarms[id]
                h == HistoryOf(priceHistory', al.ticker)
                startTime == IF al.timeUnit = "since_start"
                             THEN (IF al.lastResetTime # NoTime
                                   THEN al.lastResetTime ELSE al.createdAt)
                             ELSE now' - al.timeValue * 60000
                relevant == SelectSeq(h, LAMBDA pt : pt.timestamp >= startTime)
            IN  (al.type = "timeframe" /\ relevant # <<>>) =>
                    LET startPrice == relevant[1].price
                        n == (assets'[al.ticker].price - startPrice) * 100
                        bound == al.percentage * startPrice
                        fired == id \in EventIds(events')
                    IN  /\ al.direction = "up" => (fired <=> n >= bound)
                        /\ al.direction = "down" => (fired <=> n <= -bound)
                        /\ al.direction = "any" => (fired <=> Abs(n) >= bound)
      ]_vars

\* C1: an alarm other than a since-start Timeframe alarm that is triggered
\* is not fired by any step: no trigger event is emitted for it until a
\* cooldown has cleared its triggered flag.
C1_FiresOncePerArming ==
    [][\A id \in DOMAIN alarms :
          (~IsSinceStart(alarms[id]) /\ alarms[id].triggered)
              => id \notin EventIds(events')
      ]_vars

\* Witness of C1: a pass of checkAlarms has just run over a latched alarm
\* whose rule still holds, without firing it.
C1_Witness ==
    /\ checked
    /\ \E id \in DOMAIN alarms :
          /\ ~IsSinceStart(alarms[id])
          /\ alarms[id].triggered
          /\ alarms[id].ticker \in DOMAIN assets
          /\ ~Fired(id)
          /\ Verdict(alarms[id], assets[alarms[id].ticker],
                     HistoryOf(priceHistory, alarms[id].ticker), now) # <<>>

\* C5: a pass of checkAlarms over an untriggered Timeframe alarm whose
\* asset has no history point at or after the window start gives no
\* verdict: no event, the alarm unchanged, and the alarm was evaluated
\* (it is not latched, so the next pass evaluates it again).
C5_NoDataNoVerdict ==
    [][checked' =>
        \A id \in DOMAIN alarms :
            LET al == alarms[id]
                h == HistoryOf(priceHistory', al.ticker)
                startTime == IF al.timeUnit = "since_start"
                             THEN (IF al.lastResetTime # NoTime
                                   THEN al.lastResetTime ELSE al.createdAt)
                             ELSE now' - al.timeValue * 60000
            IN  (/\ al.type = "timeframe"
                 /\ ~al.triggered
                 /\ al.ticker \in DOMAIN assets'
                 /\ \A i \in DOMAIN h : h[i].timestamp < startTime)
                => /\ id \notin EventIds(events')
                   /\ id \in evaluated'
                   /\ alarms'[id] = al
      ]_vars

\* Witness of C5: a Timeframe alarm was evaluated on a history of at least
\* 2 points, none of them inside its window, while the price had moved by
\* more than its percentage since the oldest point.
C5_Witness ==
    /\ checked
    /\ \E id \in evaluated :
          LET al == alarms[id]
              h == HistoryOf(priceHistory, al.ticker)
          IN  /\ al.type = "timeframe"
              /\ Len(h) >= 2
              /\ \A i \in DOMAIN h : h[i].timestamp < StartTimeOf(al, now)
              /\ Abs(assets[al.ticker].price - h[1].price) * 100 >= al.percentage * h[1].price
              /\ ~Fired(id)

\* C6: a since-start Timeframe alarm never latches: triggered is false in
\* every state; when it fires, an event is emitted and lastResetTime becomes
\* the current time; every pass of checkAlarms evaluates it.
C6_SinceStartPulse ==
    [][\A id \in DOMAIN alarms' :
          IsSinceStart(alarms'[id]) =>
              /\ ~alarms'[id].triggered
              /\ id \in EventIds(events') =>
                    /\ alarms'[id].lastResetTime = now'
                    /\ \E i \in DOMAIN modalStack' : modalStack'[i].id = id
              /\ (checked' /\ alarms'[id].ticker \in DOMAIN assets') => id \in evaluated'
              /\ (id \in DOMAIN alarms /\ alarms'[id].lastResetTime # alarms[id].lastResetTime)
                    => id \in EventIds(events')
      ]_vars

\* Witness of C6: a since-start alarm that fired in an earlier pass has
\* just been evaluated again.
C6_Witness ==
    /\ checked
    /\ \E id \in evaluated :
          /\ IsSinceStart(alarms[id])
          /\ alarms[id].lastResetTime > alarms[id].createdAt
          /\ alarms[id].lastResetTime < now

\* Fairness of the life-cycle specification: time passes, and a registered
\* 1 s interval keeps firing.
\* The cooldown life cycle under fair scheduling: localStorage holds one
\* Target alarm per alarm id on the tracked pair; the clock advances and
\* the interval callbacks of startResetCooldown keep running.
StoredTargets ==
    LET st == StoredAssets({"BTCUSDT"})
        alarm == [EvalBlank("target") EXCEPT !.ticker = "BTCUSDT", !.targetPrice = 105,
                                             !.direction = "up", !.createdAt = AddedAt]
    IN  Snapshot(st.assets, [id \in 1 .. MaxAlarms |-> alarm], st.priceHistory)

InitCooldown == InitFrom(StoredTargets, MaxAlarms)

NextCooldown ==
    \/ Advance
    \/ \E k \in TickIds : StartTick(k)
    \/ Fetching
    \/ \E i \in 1 .. (2 * MaxSteps + 2) : DismissModal(i)
    \/ \E i \in 1 .. (2 * MaxSteps + 2) : RestartModal(i)
    \/ \E id \in AlarmIds : CooldownTimer(id)
    \/ Reload

FairSpec ==
    /\ InitCooldown
    /\ [][NextCooldown]_vars
    /\ WF_vars(Advance)
    /\ \A id \in AlarmIds : WF_vars(CooldownTimer(id))

Cooled(id) ==
    id \in DOMAIN alarms => (~alarms[id].triggered /\ alarms[id].resetUntil = NoTime)

\* C7: restarting a triggered Target alarm sets resetUntil = now + 60 s;
\* the cooldown ends no earlier than resetUntil, and it does end: the alarm
\* gets triggered = false and resetUntil cleared, and from then on every
\* pass of checkAlarms evaluates it.
C7_RestartCooldown ==
    /\ [][\A i \in DOMAIN modalStack :
            (RestartModal(i) /\ modalStack[i].id \in DOMAIN alarms)
                => /\ alarms[modalStack[i].id].type = "target"
                   /\ alarms[modalStack[i].id].triggered
                   /\ alarms'[modalStack[i].id].resetUntil = now + 60000
                   /\ alarms'[modalStack[i].id].triggered
         ]_vars
    /\ [][\A id \in DOMAIN alarms \cap DOMAIN alarms' :
            (alarms[id].resetUntil # NoTime /\ alarms'[id].resetUntil = NoTime)
                => (now >= alarms[id].resetUntil /\ ~alarms'[id].triggered)
         ]_vars
    /\ [][checked' =>
            \A id \in DOMAIN alarms :
                (alarms[id].type = "target" /\ ~alarms[id].triggered
                    /\ alarms[id].ticker \in DOMAIN assets') => id \in evaluated'
         ]_vars
    /\ \A id \in AlarmIds :
          (id \in DOMAIN alarms /\ alarms[id].resetUntil # NoTime
              /\ alarms[id].resetUntil <= MaxTime) ~> Cooled(id)

\* Witness of C7: a Target alarm that went through a cooldown has fired
\* again.
C7_Witness ==
    /\ checked
    /\ \E id \in evaluated :
          /\ alarms[id].type = "target"
          /\ alarms[id].resetting = "false"
          /\ Fired(id)

\* C8: at start-up an alarm stored with resetUntil in the future keeps that
\* resetUntil (and its triggered flag) and gets a timer; one stored with
\* resetUntil <= now is re-armed at once; the timer created at start-up
\* re-arms the alarm once the stored deadline has passed, not before.
C8_RehydrateCooldown ==
    /\ [][Reload =>
            \A id \in DOMAIN storage.alarms :
                LET st == storage.alarms[id]
                IN  /\ (st.resetUntil # NoTime /\ st.resetUntil > now) =>
                          /\ alarms'[id].resetUntil = st.resetUntil
                          /\ alarms'[id].triggered = st.triggered
                          /\ timers'[id].kind # "none"
                    /\ (st.resetUntil # NoTime /\ st.resetUntil <= now) =>
                          /\ alarms'[id].resetUntil = NoTime
                          /\ ~alarms'[id].triggered
                          /\ timers'[id].kind = "none"
         ]_vars
    /\ [][\A id \in DOMAIN alarms \cap DOMAIN alarms' :
            (timers[id].kind = "rehydrated" /\ timers'[id].kind = "none")
                => /\ now >= alarms[id].resetUntil
                   /\ alarms'[id].resetUntil = NoTime
                   /\ ~alarms'[id].triggered
         ]_vars
    /\ \A id \in AlarmIds :
          (timers[id].kind = "rehydrated" /\ id \in DOMAIN alarms
              /\ alarms[id].resetUntil <= MaxTime) ~> Cooled(id)

\* Witness of C8: after a reload an alarm is in cooldown with less than the
\* full 60 s left.
C8_Witness ==
    \E id \in DOMAIN alarms :
        /\ timers[id].kind = "rehydrated"
        /\ alarms[id].triggered
        /\ alarms[id].resetUntil > now
        /\ alarms[id].resetUntil < now + ResetCooldownMs

\* C9: a pass of checkAlarms evaluates every Target alarm whose
\* resetUntil has elapsed, whether or not its timer callback has run.
C9_ExpiryByTime ==
    [][checked' =>
        \A id \in DOMAIN alarms :
            (/\ alarms[id].type = "target"
             /\ alarms[id].resetUntil # NoTime
             /\ alarms[id].resetUntil <= now
             /\ alarms[id].ticker \in DOMAIN assets') => id \in evaluated'
      ]_vars

\* ------------------------------------------------------------------------
\* Two tracked assets: localStorage holds both pairs and an Extreme alarm
\* on the second; only the clock, the interval and the upstream act.
\* ------------------------------------------------------------------------
StoredPairs ==
    LET st == StoredAssets(Tickers)
        alarm == [EvalBlank("extreme") EXCEPT !.ticker = "ETHUSDT", !.percentage = 10,
                                              !.extremeType = "max", !.createdAt = AddedAt]
    IN  Snapshot(st.assets, <<alarm>>, st.priceHistory)

InitMulti == InitFrom(StoredPairs, 1)

\* The upstream throttles BTCUSDT only; any request may fail.
NextMulti ==
    \/ Advance
    \/ \E k \in TickIds : StartTick(k)
    \/ \E k \in TickIds, a \in Tickers : GateWake(k, a)
    \/ \E k \in TickIds : Respond429(k, "BTCUSDT")
    \/ \E k \in TickIds : BackoffWake(k, "BTCUSDT")
    \/ \E k \in TickIds, a \in Tickers : RespondFail(k, a)
    \/ \E k \in TickIds, p \in Prices : RespondOk(k, "ETHUSDT", p)

SpecMulti == InitMulti /\ [][NextMulti]_vars

\* C10: when a fetch of an interval tick settles and every other fetch of
\* that tick has settled or is sleeping in its 429 backoff, the tick does
\* not wait for the sleeping fetches: the alarms are evaluated by
\* checkAlarms in that very step.
C10_ThrottledAssetDoesNotDelay ==
    [][\A k \in TickIds :
          (/\ ticks[k].kind = "interval"
           /\ ticks'[k].kind = "interval"
           /\ \E a \in DOMAIN ticks[k].fetch :
                 /\ ticks[k].fetch[a].stage = "inflight"
                 /\ ticks'[k].fetch[a].stage = "done"
           /\ \A b \in DOMAIN ticks'[k].fetch :
                 ticks'[k].fetch[b].stage \in {"done", "backoff"})
          => checked'
      ]_vars

\* Some fetch of some tick is handed to the network by this step.
Dispatched(k, a) ==
    /\ a \in DOMAIN ticks'[k].fetch
    /\ ticks'[k].fetch[a].stage = "inflight"
    /\ ~(a \in DOMAIN ticks[k].fetch /\ ticks[k].fetch[a].stage = "inflight")

\* C11: every request is dispatched at least minApiDelay after the request
\* dispatched before it (lastApiCall is the time of the latest dispatch),
\* whichever assets and ticks the two requests belong to.
C11_GlobalGate ==
    [][\A k \in TickIds, a \in Tickers :
          Dispatched(k, a) => now' - lastApiCall >= MinApiDelay
      ]_vars

\* The documented retry helper gives up after maxRetries attempts.
MaxRetries == 3

\* C12: a fetch call retries after the backoff a bounded number of times:
\* its MaxRetries-th throttling response makes it return to its caller
\* instead of sleeping once more.
C12_BoundedRetry ==
    [][\A k \in TickIds, a \in Tickers :
          (/\ a \in DOMAIN ticks[k].fetch
           /\ ticks[k].fetch[a].stage = "inflight"
           /\ a \in DOMAIN ticks'[k].fetch
           /\ ticks'[k].fetch[a].stage = "backoff")
          => ticks'[k].fetch[a].throttled < MaxRetries
      ]_vars

\* The bodies of updateAllPrices that are still awaiting fetches.
Running == {k \in TickIds : ticks[k].kind \in UpdateKinds}

\* C13: ticks do not overlap: the interval never starts a tick body while
\* another one is still awaiting its fetches, so at most one is running.
C13_NoOverlap == Cardinality(Running) <= 1

\* A running updateAllPrices has applied the update of some asset while
\* the fetch of another asset of the same call has not returned yet.
HalfUpdated(tick) ==
    /\ tick.kind \in UpdateKinds
    /\ \E a \in DOMAIN tick.fetch : tick.fetch[a].applied
    /\ \E b \in DOMAIN tick.fetch : tick.fetch[b].stage # "done"

\* C14: checkAlarms runs in the step in which the last fetch of its tick
\* returns, and the state it evaluates holds no half-applied updates of a
\* tick in progress.
C14_NoHalfUpdatedEvaluation ==
    [][checked' =>
          /\ \A k \in TickIds :
                (ticks[k].kind = "interval" /\ ticks'[k].kind = "idle")
                    => Cardinality({a \in DOMAIN ticks[k].fetch :
                                       ticks[k].fetch[a].stage # "done"}) = 1
          /\ \A j \in TickIds : ~HalfUpdated(ticks'[j])
      ]_vars

\* ------------------------------------------------------------------------
\* Removing pairs and alarms while ticks and cooldowns run
\* ------------------------------------------------------------------------
\* localStorage with both pairs tracked and one armed target alarm per
\* alarm id, the pairs taken in turn.
StoredTracked ==
    LET st == StoredAssets(Tickers)
    IN  Snapshot(st.assets,
                 [id \in AlarmIds |->
                     [EvalBlank("target") EXCEPT
                         !.ticker = TickerOrder[((id - 1) % Len(TickerOrder)) + 1],
                         !.targetPrice = 105, !.direction = "up",
                         !.createdAt = AddedAt]],
                 st.priceHistory)

InitAssets == InitFrom(StoredTracked, MaxAlarms + 1)

NextAssets ==
    \/ Advance
    \/ \E k \in TickIds : StartTick(k)
    \/ \E k \in TickIds, a \in Tickers : GateWake(k, a)
    \/ \E k \in TickIds : RespondFail(k, "ETHUSDT")
    \/ \E k \in TickIds, p \in Prices : RespondOk(k, "BTCUSDT", p)
    \/ \E a \in Tickers : removeAsset(a)

SpecAssets == InitAssets /\ [][NextAssets]_vars

\* A fresh installation: nothing is stored. During the first step after
\* the page is loaded the user adds a pair, and may click a second time
\* while the first call is still waiting.
InitAdding == InitFrom(StoredAssets({}), 0)

Adding == {k \in TickIds : ticks[k].kind \in AddKinds}

NextAdding ==
    \/ Advance
    \/ \E k \in TickIds : StartTick(k)
    \/ \E k \in TickIds, a \in Tickers : GateWake(k, a)
    \/ \E k \in TickIds, a \in Tickers, p \in Prices : RespondOk(k, a, p)
    \/ \E k \in TickIds :
          \E pair \in {a \in {"BTCUSDT"} : now = StartTime /\ Adding \subseteq {1}} :
              addAsset(k, pair)
    \/ \E k \in TickIds, a \in Tickers : CoinFound(k, a)
    \/ \E k \in TickIds, a \in Tickers : AddFails(k, a)
    \/ \E k \in TickIds, a \in Tickers, p \in Prices : PriceFetched(k, a, p)

SpecAdding == InitAdding /\ [][NextAdding]_vars

\* One pair with an armed target alarm per alarm id; the user restarts
\* alarms from their modals, removes alarms and removes the pair.
StoredArmed ==
    LET st == StoredAssets({"BTCUSDT"})
        alarm == [EvalBlank("target") EXCEPT !.ticker = "BTCUSDT", !.targetPrice = 105,
                                             !.direction = "up", !.createdAt = AddedAt]
    IN  Snapshot(st.assets, [id \in AlarmIds |-> alarm], st.priceHistory)

InitTimers == InitFrom(StoredArmed, MaxAlarms + 1)

NextTimers ==
    \/ Advance
    \/ \E k \in TickIds : StartTick(k)
    \/ \E k \in TickIds, a \in Tickers, p \in Prices : RespondOk(k, a, p)
    \/ \E a \in Tickers : removeAsset(a)
    \/ \E id \in AlarmIds : removeAlarm(id)
    \/ \E i \in 1 .. (2 * MaxSteps + 2) : RestartModal(i)
    \/ \E id \in AlarmIds : CooldownTimer(id)

SpecTimers == InitTimers /\ [][NextTimers]_vars

\* A fetch closure of updateAllPrices for ticker a returns in this step.
Returns(k, a) ==
    /\ ticks[k].kind \in UpdateKinds
    /\ a \in DOMAIN ticks[k].fetch
    /\ ticks[k].fetch[a].stage = "inflight"
    /\ \/ ticks'[k].kind = "idle"
       \/ a \in DOMAIN ticks'[k].fetch /\ ticks'[k].fetch[a].stage = "done"

\* C15: when the fetch of a pair that removeAsset has removed meanwhile
\* returns, the result is discarded: the pair stays absent from assets and
\* from priceHistory.
C15_RemovedStaysAbsent ==
    [][\A k \in TickIds, a \in Tickers :
          (Returns(k, a) /\ a \notin DOMAIN assets)
              => (a \notin DOMAIN assets' /\ a \notin DOMAIN priceHistory') ]_vars

\* C16: a step that removes a pair leaves no asset, no history and no alarm
\* of that pair, and leaves the assets, histories and alarms of every other
\* pair as they were.
C16_RemoveAssetEffect ==
    [][\A a \in Tickers :
          (a \in DOMAIN assets /\ a \notin DOMAIN assets')
              => /\ a \notin DOMAIN priceHistory'
                 /\ AlarmsOf(alarms', a) = {}
                 /\ DOMAIN assets' = DOMAIN assets \ {a}
                 /\ \A b \in DOMAIN assets' : assets'[b] = assets[b]
                 /\ DOMAIN priceHistory' = DOMAIN priceHistory \ {a}
                 /\ \A b \in DOMAIN priceHistory' : priceHistory'[b] = priceHistory[b]
                 /\ DOMAIN alarms' = DOMAIN alarms \ AlarmsOf(alarms, a)
                 /\ \A id \in DOMAIN alarms' : alarms'[id] = alarms[id] ]_vars

\* Witness of C16: a pair with alarms has been removed while the other pair,
\* its history and its alarm are still there.
C16_Witness ==
    \E a \in Tickers, b \in Tickers :
        /\ a \notin DOMAIN assets /\ a \notin DOMAIN priceHistory
        /\ AlarmsOf(alarms, a) = {}
        /\ b \in DOMAIN assets /\ b \in DOMAIN priceHistory
        /\ AlarmsOf(alarms, b) # {}

\* C17: no cooldown interval of an alarm that is no longer in this.alarms
\* is running or registered in resetIntervals.
C17_RemovedAlarmHasNoTimer ==
    \A id \in AlarmIds :
        id \notin DOMAIN alarms => (timers[id].kind = "none" /\ id \notin resetIntervals)

\* C18: every tracked asset has minPrice <= price <= maxPrice.
C18_PriceWithinExtrema ==
    \A a \in DOMAIN assets :
        assets[a].minPrice <= assets[a].price /\ assets[a].price <= assets[a].maxPrice

\* Witness of C18: a pair added by addAsset after the page was loaded has
\* been updated by a tick to a price away from one of its extrema.
C18_Witness ==
    \E a \in DOMAIN assets \cap DOMAIN priceHistory :
        /\ Len(priceHistory[a]) >= 2
        /\ priceHistory[a][1].timestamp > StartTime
        /\ assets[a].minPrice < assets[a].maxPrice

\* C19: in a step that leaves a pair tracked, its maxPrice does not
\* decrease and its minPrice does not increase.
C19_ExtremaWiden ==
    [][\A a \in DOMAIN assets \cap DOMAIN assets' :
          /\ assets'[a].maxPrice >= assets[a].maxPrice
          /\ assets'[a].minPrice <= assets[a].minPrice ]_vars

\* C20: the price history of every pair is ordered by non-decreasing
\* timestamp, whatever the order in which the fetches of overlapping ticks
\* return.
C20_HistoryOrdered ==
    \A a \in DOMAIN priceHistory :
        \A i \in DOMAIN priceHistory[a], j \in DOMAIN priceHistory[a] :
            i < j => priceHistory[a][i].timestamp <= priceHistory[a][j].timestamp

\* Witness of C20: the fetch of a tick sleeps in the backoff of a 429 it
\* received before the latest tick started; that later tick has already
\* returned and its point is the last of the history.
C20_Witness ==
    \E k \in TickIds, a \in DOMAIN priceHistory :
        /\ ticks[k].kind = "interval"
        /\ a \in DOMAIN ticks[k].fetch
        /\ ticks[k].fetch[a].stage = "backoff"
        /\ ticks[k].fetch[a].wakeAt - RateLimitBackoffMs < lastTickAt
        /\ \A j \in TickIds \ {k} : ticks[j].kind = "idle"
        /\ Len(priceHistory[a]) >= 2
        /\ priceHistory[a][Len(priceHistory[a])].timestamp >= lastTickAt

\* ------------------------------------------------------------------------
\* The 24 h window of the price history
\* ------------------------------------------------------------------------
\* The page has been open for a day: one pair, tracked since StartTime, whose
\* history holds points from around 24 hours ago and a recent one; the
\* request of an interval tick is in flight.
DayLater == StartTime + DayMs

InitHistory ==
    \E history \in
          LET OldTimes == {StartTime - StepMs, StartTime, StartTime + StepMs,
                           StartTime + 2 * StepMs, DayLater - StepMs}
              OldPoints == [price : Prices, timestamp : OldTimes]
          IN  {h \in UNION {[1 .. n -> OldPoints] : n \in 1 .. (MaxHist - 1)} :
                  \A i \in DOMAIN h, j \in DOMAIN h :
                      i < j => h[i].timestamp < h[j].timestamp} :
        LET last == history[Len(history)]
            asset == [NewAsset("BTCUSDT", last.price, last.timestamp) EXCEPT
                         !.maxPrice = 110, !.minPrice = 90]
            st == Snapshot([a \in {"BTCUSDT"} |-> asset], <<>>,
                           [a \in {"BTCUSDT"} |-> history])
        IN  /\ now = DayLater
            /\ nextAlarm = 0
            /\ assets = st.assets
            /\ priceHistory = st.priceHistory
            /\ alarms = <<>>
            /\ timers = [id \in AlarmIds |-> NoTimer]
            /\ resetIntervals = {}
            /\ storage = st
            /\ ticks = [k \in TickIds |->
                          IF k = 1
                          THEN [kind |-> "interval",
                                fetch |-> [a \in {"BTCUSDT"} |-> Inflight]]
                          ELSE IdleTick]
            /\ lastApiCall = DayLater
            /\ monitoring = TRUE
            /\ lastTickAt = DayLater
            /\ modalStack = <<>>
            /\ checked = FALSE
            /\ events = <<>>
            /\ evaluated = {}
            /\ sound = Silent
            /\ fresh = {}

NextHistory ==
    \/ \E p \in Prices : RespondOk(1, "BTCUSDT", p)
    \/ RespondFail(1, "BTCUSDT")

SpecHistory == InitHistory /\ [][NextHistory]_vars

\* C21: after a point has been appended, no stored point is older than
\* now - 24 h, and every point of the history that is not older than
\* now - 24 h (one exactly 24 hours old included) is still stored.
C21_PrunesExactlyOlder ==
    [][\A a \in Tickers :
          (a \in DOMAIN priceHistory' /\ priceHistory'[a] # HistoryOf(priceHistory, a)) =>
              /\ \A j \in DOMAIN priceHistory'[a] :
                    priceHistory'[a][j].timestamp >= now' - DayMs
              /\ \A i \in DOMAIN HistoryOf(priceHistory, a) :
                    priceHistory[a][i].timestamp >= now' - DayMs
                        => \E j \in DOMAIN priceHistory'[a] :
                              priceHistory'[a][j] = priceHistory[a][i] ]_vars

\* C22: every tracked pair has at least one history point.
C22_HistoryNeverEmpty ==
    \A a \in DOMAIN assets : Len(HistoryOf(priceHistory, a)) >= 1

\* C23: when the fetch of a pair returns no price data, the asset and its
\* history stay as they are, and the checkAlarms pass that follows in the
\* same step evaluates the alarms on that unchanged state.
C23_FailureKeepsLastKnown ==
    [][\A k \in TickIds, a \in Tickers :
          RespondFail(k, a) =>
              /\ assets' = assets
              /\ priceHistory' = priceHistory
              /\ checked' =>
                    /\ events' = TriggerEvents(1, alarms, assets, priceHistory, now)
                    /\ alarms' = AlarmsAfterCheck(alarms, assets, priceHistory, now) ]_vars

\* Witness of C23: the fetch of the tick failed, and the pass that followed
\* fired an alarm on the prices of an earlier update.
C23_Witness ==
    /\ checked
    /\ events # <<>>
    /\ \A a \in DOMAIN assets : assets[a].lastUpdate < now

\* C24: a Target alarm with direction up fires only in a pass in which the
\* previously observed price of the pair was below the target, one with
\* direction down only when it was above.
C24_FiresOnlyOnCrossing ==
    checked =>
        \A id \in evaluated :
            LET al == alarms[id]
                h == HistoryOf(priceHistory, al.ticker)
            IN  (al.type = "target" /\ Fired(id)) =>
                    /\ al.direction = "up" =>
                          (Len(h) >= 2 /\ h[Len(h) - 1].price < al.targetPrice)
                    /\ al.direction = "down" =>
                          (Len(h) >= 2 /\ h[Len(h) - 1].price > al.targetPrice)

\* C25: the event of a Target alarm that fires reports up when the alarm is
\* configured up or the price is at or above the target, and down otherwise.
C25_ReportedDirection ==
    checked =>
        \A id \in evaluated :
            LET al == alarms[id]
            IN  (al.type = "target" /\ Fired(id)) =>
                    DirectionOf(id) =
                        (IF al.direction = "up"
                            \/ assets[al.ticker].price >= al.targetPrice
                         THEN "up" ELSE "down")

\* Witness of C25: an up alarm has fired with the price still below its
\* target (inside the tolerance), and its event reports up.
C25_Witness ==
    /\ checked
    /\ \E id \in evaluated :
          /\ alarms[id].type = "target"
          /\ alarms[id].direction = "up"
          /\ assets[alarms[id].ticker].price < alarms[id].targetPrice
          /\ Fired(id)
          /\ DirectionOf(id) = "up"

\* ------------------------------------------------------------------------
\* The reference price of a since-start alarm: localStorage holds both
\* pairs and a since-start Timeframe alarm on the first; the requests of a
\* tick pass the gate one after the other; any request may fail and the
\* upstream answers those for the first pair with a price.
\* ------------------------------------------------------------------------
InitReset ==
    LET st == StoredAssets(Tickers)
        alarm == [EvalBlank("timeframe") EXCEPT !.ticker = "BTCUSDT", !.percentage = 10,
                                                !.direction = "any",
                                                !.timeUnit = "since_start",
                                                !.createdAt = AddedAt,
                                                !.lastResetTime = AddedAt]
    IN  InitFrom(Snapshot(st.assets, <<alarm>>, st.priceHistory), 1)

NextReset ==
    \/ Advance
    \/ \E k \in TickIds : StartTick(k)
    \/ \E k \in TickIds, a \in Tickers : GateWake(k, a)
    \/ \E k \in TickIds, a \in Tickers : RespondFail(k, a)
    \/ \E k \in TickIds, p \in Prices : RespondOk(k, "BTCUSDT", p)

SpecReset == InitReset /\ [][NextReset]_vars

\* C26: in every pass that evaluates a since-start Timeframe alarm after an
\* earlier pass in which it fired, the reference price of the evaluation
\* (the first point inside the window that starts at lastResetTime) is the
\* price the asset had when the alarm fired (the last point recorded up to
\* lastResetTime).
C26_ReferenceIsTriggerPrice ==
    checked =>
        \A id \in evaluated :
            LET al == alarms[id]
                h == HistoryOf(priceHistory, al.ticker)
                window == SelectSeq(h, LAMBDA x : x.timestamp >= al.lastResetTime)
                before == SelectSeq(h, LAMBDA x : x.timestamp <= al.lastResetTime)
            IN  (/\ IsSinceStart(al)
                 /\ al.lastResetTime > al.createdAt
                 /\ al.lastResetTime < now
                 /\ Len(h) >= 2
                 /\ window # <<>>
                 /\ before # <<>>) =>
                    window[1].price = before[Len(before)].price

\* C27: in every reachable state an alarm whose resetUntil is set is a
\* Target alarm and has triggered = true, whatever restart buttons were
\* clicked and whenever.
C27_CooldownOnlyFromTriggered ==
    \A id \in DOMAIN alarms :
        alarms[id].resetUntil # NoTime =>
            (alarms[id].type = "target" /\ alarms[id].triggered)

\* Witness of C27: RESTART has just been clicked on the modal of a
\* triggered Target alarm, whose cooldown starts now.
C27_Witness ==
    \E id \in DOMAIN alarms :
        /\ alarms[id].resetUntil = now + ResetCooldownMs
        /\ timers[id].kind = "cooldown"
        /\ id \in resetIntervals
        /\ alarms[id].triggeredAt # NoTime

\* ------------------------------------------------------------------------
\* Restart buttons of alarms that are gone: one pair with an armed target
\* alarm per alarm id; the user removes alarms whose modal is open and
\* clicks RESTART (60s) on the modals that are left on the screen.
\* ------------------------------------------------------------------------
RemoveShown(id) ==
    /\ \E i \in DOMAIN modalStack : modalStack[i].id = id
    /\ removeAlarm(id)

NextStale ==
    \/ Advance
    \/ \E k \in TickIds : StartTick(k)
    \/ \E k \in TickIds, a \in Tickers, p \in Prices : RespondOk(k, a, p)
    \/ \E id \in AlarmIds : RemoveShown(id)
    \/ \E i \in 1 .. (2 * MaxSteps + 2) : RestartModal(i)
    \/ \E id \in AlarmIds : CooldownTimer(id)

SpecStale == InitTimers /\ [][NextStale]_vars

toUpperCase(str) ==
    LET UpperChar(c) ==
            IF c = "b" THEN "B" ELSE IF c = "t" THEN "T" ELSE IF c = "c" THEN "C"
            ELSE IF c = "u" THEN "U" ELSE IF c = "s" THEN "S" ELSE IF c = "d" THEN "D"
            ELSE c
    IN  [i \in DOMAIN str |-> UpperChar(str[i])]

\* String.prototype.trim: leading and trailing blanks go.
trim(str) ==
    LET inked == {i \in DOMAIN str : str[i] # " "}
    IN  IF inked = {} THEN <<>>
        ELSE SubSeq(str, CHOOSE i \in inked : \A j \in inked : i <= j,
                         CHOOSE i \in inked : \A j \in inked : i >= j)

\* The quote currencies of parseTradingPair, in the order it tries them.
quotes ==
    << <<"U", "S", "D", "T">>, <<"U", "S", "D", "C">>, <<"U", "S", "D">>,
       <<"B", "U", "S", "D">>, <<"D", "A", "I">>, <<"B", "T", "C">>,
       <<"E", "T", "H">>, <<"B", "N", "B">>, <<"E", "U", "R">>, <<"G", "B", "P">> >>

\* parseTradingPair(pairString): <<>> for null, else <<[base, quote, pair]>>
\* for the first quote the string ends with after a non-empty base.
parseTradingPair(pairString) ==
    LET str == trim(toUpperCase(pairString))
        endsWith(suffix) ==
            /\ Len(str) >= Len(suffix)
            /\ SubSeq(str, Len(str) - Len(suffix) + 1, Len(str)) = suffix
        fits == {i \in DOMAIN quotes :
                    endsWith(quotes[i]) /\ Len(str) > Len(quotes[i])}
    IN  IF fits = {} THEN <<>>
        ELSE LET i == CHOOSE j \in fits : \A l \in fits : j <= l
             IN  <<[base |-> SubSeq(str, 1, Len(str) - Len(quotes[i])),
                    quote |-> quotes[i], pair |-> str]>>

\* The keys of the asset Map, spelled out.
KeyOf(str) ==
    LET Spelled == [a \in Tickers |->
                       IF a = "BTCUSDT" THEN <<"B", "T", "C", "U", "S", "D", "T">>
                       ELSE <<"E", "T", "H", "U", "S", "D", "T">>]
    IN  IF \E a \in Tickers : Spelled[a] = str
        THEN <<CHOOSE a \in Tickers : Spelled[a] = str>> ELSE <<>>

\* What the user types: nothing, blanks, a quote without a base, a symbol
\* without a quote, and the pair BTCUSDT in two spellings.
PairInputs ==
    { <<>>, <<" ", " ">>, <<"U", "S", "D", "T">>, <<"B", "T", "C">>,
      <<"D", "O", "G", "E">>, <<"U", "S", "D", " ">>,
      <<"B", "T", "C", "U", "S", "D", "T">>,
      <<" ", "b", "t", "c", "u", "s", "d", "t", " ">> }

\* addAsset returns before its first await without having started a lookup:
\* the input is empty or parseTradingPair returns null.
Rejected(input) ==
    LET pairInput == toUpperCase(trim(input))
    IN  pairInput = <<>> \/ parseTradingPair(pairInput) = <<>>

\* addAsset(pairInput) from the click to its first await.
addAssetInput(k, input) ==
    LET pairInput == toUpperCase(trim(input))
        key == KeyOf(pairInput)
    IN  IF Rejected(input) \/ (key # <<>> /\ key[1] \in DOMAIN assets)
        THEN /\ checked' = FALSE
             /\ events' = <<>>
             /\ evaluated' = {}
             /\ sound' = sound
             /\ fresh' = fresh
             /\ UNCHANGED <<now, assets, priceHistory, alarms, nextAlarm, resetIntervals,
                            timers, modalStack, lastApiCall, ticks, monitoring,
                            lastTickAt, storage>>
        ELSE key # <<>> /\ addAsset(k, key[1])

\* localStorage holds ETHUSDT and an Extreme alarm on it; during the first
\* step after the page is loaded the user types into the pair field and
\* clicks Add, at most twice while a call is still waiting. The first
\* updateAllPrices is under way; the interval is left out.
InitInput ==
    LET st == StoredAssets({"ETHUSDT"})
        alarm == [EvalBlank("extreme") EXCEPT !.ticker = "ETHUSDT", !.percentage = 10,
                                              !.extremeType = "max", !.createdAt = AddedAt]
    IN  InitFrom(Snapshot(st.assets, <<alarm>>, st.priceHistory), 1)

NextInput ==
    \/ \E k \in TickIds, a \in Tickers : GateWake(k, a)
    \/ \E k \in TickIds, p \in Prices : RespondOk(k, "ETHUSDT", p)
    \/ \E k \in TickIds :
          \E input \in {i \in PairInputs : now = StartTime /\ Adding \subseteq {1}} :
              addAssetInput(k, input)
    \/ \E k \in TickIds, a \in Tickers : CoinFound(k, a)
    \/ \E k \in TickIds, a \in Tickers : AddFails(k, a)
    \/ \E k \in TickIds, a \in Tickers, p \in Prices : PriceFetched(k, a, p)

SpecInput == InitInput /\ [][NextInput]_vars

loadFromStorage(st, bad) ==
    [assets |-> IF "assets" \in bad THEN <<>> ELSE st.assets,
     alarms |-> IF bad \cap {"assets", "alarms"} # {} THEN <<>> ELSE st.alarms,
     priceHistory |-> IF bad # {} THEN <<>> ELSE st.priceHistory]

\* The page is loaded while the items in bad are unreadable. A later load
\* of the same storage ends in the same Maps, which is what the storage
\* variable holds afterwards.
ReloadUnreadable(bad) ==
    LET b == Boot(loadFromStorage(storage, bad), now)
    IN  /\ bad # {}
        /\ assets' = b.assets
        /\ priceHistory' = b.priceHistory
        /\ alarms' = b.alarms
        /\ timers' = b.timers
        /\ resetIntervals' = b.resetIntervals
        /\ storage' = b.storage
        /\ ticks' = b.ticks
        /\ lastApiCall' = b.lastApiCall
        /\ monitoring' = b.monitoring
        /\ lastTickAt' = b.lastTickAt
        /\ modalStack' = <<>>
        /\ checked' = FALSE
        /\ events' = <<>>
        /\ evaluated' = {}
        /\ sound' = Silent
        /\ fresh' = {}
        /\ UNCHANGED <<now, nextAlarm>>

\* One stored pair with stored target alarms; the interval runs and the
\* page is reloaded with unreadable items.
NextLoad ==
    \/ Advance
    \/ \E k \in TickIds : StartTick(k)
    \/ \E k \in TickIds, a \in Tickers, p \in Prices : RespondOk(k, a, p)
    \/ \E k \in TickIds, a \in Tickers : RespondFail(k, a)
    \/ \E bad \in SUBSET {"assets", "alarms", "priceHistory"} : ReloadUnreadable(bad)

SpecLoad == InitTimers /\ [][NextLoad]_vars

\* C30: when an item of localStorage cannot be read or parsed in
\* loadFromStorage, the engine starts with assets, alarms and priceHistory
\* all empty.
C30_FailedLoadStartsEmpty ==
    [][\A bad \in SUBSET {"assets", "alarms", "priceHistory"} :
          ReloadUnreadable(bad) =>
              /\ DOMAIN assets' = {}
              /\ DOMAIN alarms' = {}
              /\ DOMAIN priceHistory' = {}
      ]_vars

InitIndependent ==
    LET st == StoredAssets(Tickers)
        target == [EvalBlank("target") EXCEPT !.ticker = "BTCUSDT", !.targetPrice = 105,
                                              !.direction = "up", !.createdAt = AddedAt]
        extreme == [EvalBlank("extreme") EXCEPT !.ticker = "ETHUSDT", !.percentage = 10,
                                                !.extremeType = "min",
                                                !.createdAt = AddedAt]
    IN  InitFrom(Snapshot(st.assets,
                          [id \in AlarmIds |->
                              IF id = 1 THEN target
                              ELSE IF id = 2 THEN extreme
                              ELSE [extreme EXCEPT !.ticker = "BTCUSDT"]],
                          st.priceHistory),
                 MaxAlarms + 1)

NextIndependent ==
    \/ Advance
    \/ \E k \in TickIds : StartTick(k)
    \/ \E k \in TickIds, a \in Tickers : GateWake(k, a)
    \/ \E k \in TickIds, a \in Tickers, p \in Prices : RespondOk(k, a, p)

SpecIndependent == InitIndependent /\ [][NextIndependent]_vars

C32_OneRequestPerTick ==
    \A k \in TickIds :
        ticks[k].kind \in UpdateKinds =>
            Cardinality({a \in DOMAIN ticks[k].fetch :
                            ticks[k].fetch[a].stage # "gate"}) <= 1

\* ------------------------------------------------------------------------
\* The alarm sound with test alarms
\* ------------------------------------------------------------------------
\* Click on the test alarm button: the single modal of showAlarmModal is
\* shown and playAlarmSound is called without a look at alarmSoundPlaying.
triggerTestAlarm ==
    /\ sound.leaked < MaxSteps
    /\ sound' = playAlarmSound([sound EXCEPT !.test = TRUE])
    /\ fresh' = fresh
    /\ checked' = FALSE
    /\ events' = <<>>
    /\ evaluated' = {}
    /\ UNCHANGED <<now, assets, priceHistory, alarms, nextAlarm, resetIntervals, timers,
                   modalStack, lastApiCall, ticks, monitoring, lastTickAt, storage>>

\* Click on DISMISS ALARM of the test modal: dismissAlarm() removes every
\* stacked modal too, stops the sound and hides the modal.
dismissAlarm ==
    /\ sound.test
    /\ modalStack' = <<>>
    /\ sound' = stopAlarmSound([sound EXCEPT !.test = FALSE])
    /\ fresh' = fresh
    /\ checked' = FALSE
    /\ events' = <<>>
    /\ evaluated' = {}
    /\ UNCHANGED <<now, assets, priceHistory, alarms, nextAlarm, resetIntervals, timers,
                   lastApiCall, ticks, monitoring, lastTickAt, storage>>

\* One pair with armed target alarms; the user tests the alarm sound and
\* dismisses modals.
NextSound ==
    \/ Advance
    \/ \E k \in TickIds : StartTick(k)
    \/ \E k \in TickIds, a \in Tickers, p \in Prices : RespondOk(k, a, p)
    \/ \E i \in 1 .. (2 * MaxSteps + 2) : DismissModal(i)
    \/ triggerTestAlarm
    \/ dismissAlarm

SpecSound == InitTimers /\ [][NextSound]_vars

\* C33: while a notification (a stacked modal or the test modal) is on
\* the screen the alarm sound is playing, and once none is left no
\* oscillator and no pulse interval is running.
C33_SoundUntilDismissed ==
    IF modalStack # <<>> \/ sound.test
    THEN sound.current = 1
    ELSE sound.current = 0 /\ sound.leaked = 0

\* C35: a price point is pushed onto an asset's history only when the
\* last point pushed for that asset has been read by a checkAlarms pass as
\* the current price.
C35_EvaluatedBeforeNextPoint ==
    [][\A a \in Tickers :
          (/\ a \in DOMAIN priceHistory'
           /\ priceHistory'[a] # HistoryOf(priceHistory, a)
           /\ \E p \in Prices :
                  priceHistory'[a] = AppendHistory(HistoryOf(priceHistory, a), p, now))
              => a \notin fresh]_vars

\* C36: in every state a checkAlarms pass has just read, each tracked
\* asset has a history whose last point carries asset.price.
C36_PriceIsLastPoint ==
    checked =>
        \A a \in DOMAIN assets :
            /\ Len(HistoryOf(priceHistory, a)) >= 1
            /\ assets[a].price = priceHistory[a][Len(priceHistory[a])].price

\* C37: while the resetUntil of a Target alarm lies in the future, no step
\* clears its triggered flag or moves its deadline to an earlier time, and
\* no step emits a trigger event for it.
C37_NoFireBeforeDeadline ==
    [][\A id \in DOMAIN alarms :
          (/\ alarms[id].type = "target"
           /\ alarms[id].resetUntil # NoTime
           /\ alarms[id].resetUntil > now)
              => /\ id \notin EventIds(events')
                 /\ id \in DOMAIN alarms' =>
                        /\ alarms'[id].triggered
                        /\ alarms'[id].resetUntil >= alarms[id].resetUntil
      ]_vars

\* Witness of C37: a pass of checkAlarms has just run before the deadline
\* of a Target alarm in cooldown whose rule holds, without firing it.
C37_Witness ==
    /\ checked
    /\ \E id \in DOMAIN alarms :
          /\ alarms[id].type = "target"
          /\ alarms[id].triggered
          /\ alarms[id].resetUntil # NoTime
          /\ alarms[id].resetUntil > now
          /\ alarms[id].ticker \in DOMAIN assets
          /\ ~Fired(id)
          /\ Verdict(alarms[id], assets[alarms[id].ticker],
                     HistoryOf(priceHistory, alarms[id].ticker), now) # <<>>

\* C38: an addAsset call that ends while its pair is tracked leaves the
\* tracked asset as it is: maxPrice, minPrice and the price history are
\* those of the step before, also when a second call for the same pair was
\* started while the first one was waiting.
C38_AddNeverReplaces ==
    [][\A k \in TickIds, a \in DOMAIN assets :
          (/\ ticks[k].kind \in AddKinds
           /\ a \in DOMAIN ticks[k].fetch
           /\ ticks'[k].kind = "idle")
              => /\ a \in DOMAIN assets'
                 /\ assets'[a].maxPrice = assets[a].maxPrice
                 /\ assets'[a].minPrice = assets[a].minPrice
                 /\ HistoryOf(priceHistory', a) = HistoryOf(priceHistory, a)
      ]_vars
====
